---- MODULE Spec2Model ----
(***************************************************************************)
(* Amina-Works: the subtitle workspace (App component), its edit history   *)
(* and the local-storage backend, as a state machine.                      *)
(*                                                                         *)
(* In the workspace times are exact integers in milliseconds; the source   *)
(* keeps seconds as floating point Numbers, and the rounding of its        *)
(* arithmetic is modelled apart, in the section on handleSync on Numbers.  *)
(*                                                                         *)
(* JavaScript arrays are objects: the Cue Store (subtitles), the entries   *)
(* of history and the values captured by the closures of asynchronous      *)
(* handlers are REFERENCES into `heap`.  Every handler that builds a new   *)
(* array (map, filter, slice) allocates; Array.prototype.sort works in     *)
(* place.  After each handler the unreachable arrays are collected and the *)
(* references renumbered in order of first use (Install).                  *)
(***************************************************************************)
EXTENDS Integers, Sequences, FiniteSets, TLC

\* ---------------------------------------------------------------- bounds
MaxCues == 2        \* cues in one transcription response
MaxSteps == 4       \* handler invocations in one run
MaxTranslations == 2  \* translation responses applied to one cue list
MaxTextLen == 5     \* characters of a text given to splitTextIntoChunks
MaxChunkSize == 3   \* the maxChunkSize argument (300 by default), scaled down
MaxChunks == 3      \* chunks of one call of generateDubbedAudio
MaxAudioLen == 2    \* bytes of the audio returned for one chunk
MaxPos == 4         \* last position of a track, in tenths of a second
MantissaBits == 8   \* significant bits of a Number (53 in the source), scaled down
MaxLog == 3         \* entries the activity log keeps (1000 in the source), scaled down
MaxLogCalls == 5    \* calls of logActivity in one run

\* ------------------------------------------------------------- constants
Undefined == 0                          \* the JavaScript value undefined (as an array reference)
NoText == <<>>                          \* an absent optional string field
UntitledProject == "Untitled Project"
AdminId == "admin_static_root"
UserIds == {"u1", AdminId}
DriveFileName == "Project_Flower_Edit_v2.mp4"
DriveFileUrl == "https://interactive-examples.mdn.mozilla.net/media/cc0-videos/flower.mp4"
LocalFileName == "clip.mp4"
LocalFileUrl == "blob:clip.mp4"
NoUser == [id |-> "null", role |-> "none", googleDriveConnected |-> FALSE]
NoUrl == "null"
DubUrl == "blob:dub.wav"

\* ------------------------------------------------------ input domains
RawItems ==
  { [startTime |-> 0, endTime |-> 500, text |-> "Hi"],
    [startTime |-> 500, endTime |-> 1000, text |-> "There"] }
SyncOffsets == {-500, 500}
CueIds == 0..(MaxCues - 1)
UpdateFields ==
  { [text |-> ""] , [startTime |-> 1000], [id |-> 1] }
Translations == {"", "Ciao"}
PlayTimes == {0, 250, 500, 750, 1000, 1500}     \* values of currentTime, ms

VARIABLES
  currentUser,       \* useState<User | null>
  viewMode,          \* 'auth' | 'admin-portal' | 'admin-dashboard' | 'workspace'
  mediaUrl,
  mediaName,
  subtitles,         \* reference of the Cue Store array (Undefined after a bad undo)
  history,           \* sequence of array references
  historyIndex,
  processingStatus,
  dubAudioUrl,
  fileInput,         \* the DOM input #file-upload holds a file
  heap,              \* array reference -> sequence of cues
  pending,           \* closures of the asynchronous operations in flight
  usersDb,           \* localStorage USERS_KEY: user id -> googleDriveConnected
  userData,          \* localStorage DATA_KEY: the array of project records
  last,              \* the handler that ran last and its argument (observer)
  steps,             \* handler invocations so far (observer)
  \* translateSubtitlesWithGemini, called again and again on its own result
  trSubs,            \* the cue list (argument, then result)
  trFirst,           \* cue id -> the text it had before its first translation (observer)
  trLast,            \* the last call: the response and the list it was applied to (observer)
  trRound,           \* responses applied so far
  \* splitTextIntoChunks
  chText,            \* the text argument, a sequence of characters
  chChunks,          \* the chunks returned
  chDone,            \* the function has returned
  \* generateDubbedAudio
  dubChunks,         \* chunks.length
  dubI,              \* the loop index i
  dubPc,             \* position in the function
  dubBuffers,        \* audioBuffers
  dubProgress,       \* the values passed to onProgress, in order
  dubOutcomes,       \* how each synthesis call issued so far ended
  dubResult,         \* what the caller receives
  \* VideoPlayer and the application state it is given
  plProps,           \* mediaUrl, dubAudioUrl, currentTime, isPlaying, volume, isMuted
  plUseDub,          \* useDub
  plSeeking,         \* isSeekingRef.current
  plVideo,           \* the <video> element
  plAudio,           \* the <audio> element
  plSeekEvent,       \* the next event of the seek of the <video> under way
  plLast,            \* the last step of the player and what it did
  \* handleSync's arithmetic on Numbers
  shCues,            \* the cue times before the nudges
  shOffsets,         \* the two offsets, in ms
  shTwice,           \* the cue times after handleSync(d1), handleSync(d2)
  shOnce,            \* the cue times after handleSync(d1 + d2)
  shDone,            \* the nudges have been applied
  \* mockBackend.logActivity and the export
  activities,        \* localStorage ACTIVITY_KEY, as written by JSON.stringify
  logCalls,          \* calls of logActivity so far
  logLast,           \* the last call of logActivity and how it ended (observer)
  exported           \* the file handed to downloadFile last

appVars == <<currentUser, viewMode, mediaUrl, mediaName, subtitles, history,
             historyIndex, processingStatus, dubAudioUrl, fileInput, heap, pending>>
backendVars == <<usersDb, userData>>
appAll == <<appVars, backendVars, last, steps>>
trVars == <<trSubs, trFirst, trLast, trRound>>
chVars == <<chText, chChunks, chDone>>
dubVars == <<dubChunks, dubI, dubPc, dubBuffers, dubProgress, dubOutcomes,
            dubResult>>
plVars == <<plProps, plUseDub, plSeeking, plVideo, plAudio, plSeekEvent, plLast>>
shVars == <<shCues, shOffsets, shTwice, shOnce, shDone>>
lgVars == <<activities, logCalls, logLast>>
ioVars == <<lgVars, exported>>
serviceVars == <<trVars, chVars, dubVars, plVars, shVars, ioVars>>
vars == <<appAll, serviceVars>>

\* ------------------------------------------------------------- helpers
Range(s) == { s[i] : i \in 1..Len(s) }

Min(a, b) == IF a < b THEN a ELSE b
Max(a, b) == IF a > b THEN a ELSE b

\* Array.prototype.slice(0, n) for n >= 0
Slice(s, n) == SubSeq(s, 1, Min(n, Len(s)))

\* history[i] (0-based); undefined outside the array
HistAt(h, i) == IF i >= 0 /\ i < Len(h) THEN h[i + 1] ELSE Undefined

RECURSIVE Dedup(_)
Dedup(s) ==
  IF s = <<>> THEN <<>>
  ELSE LET r == Dedup(SubSeq(s, 1, Len(s) - 1))
           x == s[Len(s)]
       IN IF x \in Range(r) THEN r ELSE Append(r, x)

Pos(s, x) == CHOOSE i \in 1..Len(s) : s[i] = x

RECURSIVE PendRefs(_)
PendRefs(p) ==
  IF p = <<>> THEN <<>>
  ELSE <<p[1].subtitles>> \o p[1].history \o PendRefs(Tail(p))

\* The state's arrays after a handler: garbage is dropped and the live
\* references are renumbered in order of first use.
Install(subs, hist, pend, hp) ==
  LET order == Dedup(SelectSeq(<<subs>> \o hist \o PendRefs(pend),
                               LAMBDA r : r # Undefined))
      ren(r) == IF r = Undefined THEN Undefined ELSE Pos(order, r)
  IN /\ subtitles' = ren(subs)
     /\ history' = [i \in 1..Len(hist) |-> ren(hist[i])]
     /\ pending' = [k \in 1..Len(pend) |->
                      [pend[k] EXCEPT
                         !.subtitles = ren(pend[k].subtitles),
                         !.history = [i \in 1..Len(pend[k].history) |->
                                        ren(pend[k].history[i])]]]
     /\ heap' = [k \in 1..Len(order) |-> hp[order[k]]]

\* a new array object holding `cues`
Alloc(hp, cues) == Append(hp, cues)
NewRef(hp) == Len(hp) + 1

\* What a handler closes over: the state of the render it was created in.
Closure(kind) ==
  [kind |-> kind, subtitles |-> subtitles, history |-> history,
   historyIndex |-> historyIndex, currentUser |-> currentUser,
   mediaName |-> mediaName]

CurrentClosure == Closure("sync")

\* the arrays a handler never reads after its await are not kept
NoArrays(c) == [c EXCEPT !.subtitles = Undefined]
NoState(c) == [c EXCEPT !.subtitles = Undefined, !.history = <<>>]

Remove(s, k) == SubSeq(s, 1, k - 1) \o SubSeq(s, k + 1, Len(s))

\* the run may take another handler invocation
CanStep == steps < MaxSteps

Did(op, arg) ==
  /\ steps' = steps + 1
  /\ last' = [op |-> op, arg |-> arg]
  /\ UNCHANGED serviceVars

\* ------------------------------------------------------- mockBackend
\* allData.findIndex(d => d.userId === userId): 0 when there is none
ExistingIndex(db, userId) ==
  IF \E i \in 1..Len(db) : db[i].userId = userId
  THEN CHOOSE i \in 1..Len(db) :
         /\ db[i].userId = userId
         /\ \A j \in 1..(i - 1) : db[j].userId # userId
  ELSE 0

SaveUserWork(db, userId, cues, name) ==
  LET data == [userId |-> userId, subtitles |-> cues,
               mediaName |-> IF name = "" THEN UntitledProject ELSE name]
  IN IF ExistingIndex(db, userId) > 0
     THEN [db EXCEPT ![ExistingIndex(db, userId)] = data]
     ELSE Append(db, data)

\* the record found, as <<record>>, or <<>> for null
LoadUserWork(db, userId) ==
  IF ExistingIndex(db, userId) > 0 THEN << db[ExistingIndex(db, userId)] >> ELSE <<>>

\* ------------------------------------------------------- history
\* addToHistory, run from closure c with the new array `ref` (content cues)
NewHistory(c, ref) == Append(Slice(c.history, c.historyIndex + 1), ref)

\* snapshots after the cursor that addToHistory drops (observer)
Cut(c) == Len(c.history) - Len(Slice(c.history, c.historyIndex + 1))

AddToHistoryData(c, cues) ==
  IF c.currentUser # NoUser
  THEN SaveUserWork(userData, c.currentUser.id, cues, c.mediaName)
  ELSE userData

\* ------------------------------------------------------- state
\* The App component after it is mounted: the mount effect restores the
\* session mockBackend.getCurrentUser() finds (none, a plain user whose saved
\* project is then loaded, or the admin), over what localStorage holds.
SavedProjects ==
  { <<>>,
    << [subtitles |-> << [id |-> 0, startTime |-> 0, endTime |-> 500, text |-> "Hi",
                          originalText |-> NoText, speaker |-> "Unknown", confidence |-> 95],
                         [id |-> 1, startTime |-> 500, endTime |-> 1000, text |-> "There",
                          originalText |-> NoText, speaker |-> "Unknown", confidence |-> 95] >>,
        mediaName |-> LocalFileName] >> }

AppMounted(saved, session) ==
  /\ usersDb = [u \in UserIds \ {AdminId} |-> FALSE]
  /\ userData = IF saved = <<>> THEN <<>>
                ELSE SaveUserWork(<<>>, "u1", saved[1].subtitles, saved[1].mediaName)
  /\   /\ currentUser = IF session = NoUser.id THEN NoUser
                        ELSE IF session = AdminId
                        THEN [id |-> AdminId, role |-> "admin", googleDriveConnected |-> TRUE]
                        ELSE [id |-> session, role |-> "user",
                              googleDriveConnected |-> usersDb[session]]
       /\ viewMode = IF session = NoUser.id THEN "auth"
                     ELSE IF session = AdminId THEN "admin-portal" ELSE "workspace"
       /\ IF session \notin {NoUser.id, AdminId} /\ LoadUserWork(userData, session) # <<>>
          THEN /\ heap = << LoadUserWork(userData, session)[1].subtitles >>
               /\ history = <<1>>
               /\ historyIndex = 0
               /\ mediaName = LoadUserWork(userData, session)[1].mediaName
          ELSE /\ heap = << <<>> >>
               /\ history = <<>>
               /\ historyIndex = -1
               /\ mediaName = UntitledProject
  /\ subtitles = 1
  /\ mediaUrl = NoUrl
  /\ processingStatus = "IDLE"
  /\ dubAudioUrl = NoUrl
  /\ fileInput = FALSE
  /\ pending = <<>>
  /\ last = [op |-> "init", arg |-> <<>>]
  /\ steps = 0

\* no call of the translation function under way
TranslateIdle ==
  /\ trSubs = <<>>
  /\ trFirst = <<>>
  /\ trLast = <<>>
  /\ trRound = 0

\* no call of splitTextIntoChunks under way
ChunkIdle ==
  /\ chText = <<>>
  /\ chChunks = <<>>
  /\ chDone = FALSE

NoResult == [kind |-> "none"]

\* no call of generateDubbedAudio under way
DubIdle ==
  /\ dubChunks = 0
  /\ dubI = 0
  /\ dubPc = "idle"
  /\ dubBuffers = <<>>
  /\ dubProgress = <<>>
  /\ dubOutcomes = <<>>
  /\ dubResult = NoResult

\* times and volumes are in tenths
FullVolume == 10

\* an element that is not rendered, and one just created
NoElement ==
  [exists |-> FALSE, paused |-> TRUE, pos |-> 0, muted |-> FALSE,
   volume |-> FullVolume]
FreshElement == [NoElement EXCEPT !.exists = TRUE]

\* useState initial values of App
InitialProps ==
  [media |-> 0, dub |-> 0, time |-> 0, playing |-> FALSE,
   volume |-> FullVolume, muted |-> FALSE]

\* the VideoPlayer as mounted with the initial state of App
PlayerMounted ==
  /\ plProps = InitialProps
  /\ plUseDub = FALSE
  /\ plSeeking = FALSE
  /\ plVideo = NoElement
  /\ plAudio = NoElement
  /\ plSeekEvent = "none"
  /\ plLast = [op |-> "mount"]

\* no nudge arithmetic under way
ShiftIdle ==
  /\ shCues = <<>>
  /\ shOffsets = <<0, 0>>
  /\ shTwice = <<>>
  /\ shOnce = <<>>
  /\ shDone = FALSE

NoFile == [mime |-> "none"]

\* nothing logged and nothing exported
IoIdle ==
  /\ activities = <<>>
  /\ logCalls = 0
  /\ logLast = [id |-> 0, stored |-> FALSE, thrown |-> FALSE]
  /\ exported = NoFile

ServicesIdle ==
  TranslateIdle /\ ChunkIdle /\ DubIdle /\ PlayerMounted /\ ShiftIdle /\ IoIdle

Init ==
  /\ \E saved \in SavedProjects, session \in UserIds \cup {NoUser.id} :
       AppMounted(saved, session)
  /\ ServicesIdle

\* the application left alone on its login screen, with nothing stored
AppParked == AppMounted(<<>>, NoUser.id)

InWorkspace == viewMode = "workspace" /\ subtitles # Undefined
\* the Cue Store and the snapshot sequence by content
Subs == heap[subtitles]
Snapshots == [i \in 1..Len(history) |-> heap[history[i]]]

\* what an operation finds when it starts (observer)
Before == [subs |-> Subs, snaps |-> Snapshots, cursor |-> historyIndex]

\* ------------------------------------------------------- session
UserRecord(u) ==
  IF u = AdminId
  THEN [id |-> AdminId, role |-> "admin", googleDriveConnected |-> TRUE]
  ELSE [id |-> u, role |-> "user", googleDriveConnected |-> usersDb[u]]

\* AuthScreen: mockBackend.login / signup, then handleLoginSuccess(user),
\* which for a plain user runs loadUserProject(user.id)
HandleLoginSuccess(u) ==
  /\ CanStep
  /\ viewMode = "auth"
  /\ currentUser' = UserRecord(u)
  /\ fileInput' = FALSE
  /\ IF u = AdminId
     THEN /\ viewMode' = "admin-portal"
          /\ UNCHANGED <<mediaName, subtitles, history, historyIndex, heap, pending>>
     ELSE /\ viewMode' = "workspace"
          /\ LET data == LoadUserWork(userData, u)
             IN IF data # <<>>
                THEN /\ Install(NewRef(heap), <<NewRef(heap)>>, pending,
                                Alloc(heap, data[1].subtitles))
                     /\ historyIndex' = 0
                     /\ mediaName' = IF data[1].mediaName = "" THEN UntitledProject
                                     ELSE data[1].mediaName
                ELSE UNCHANGED <<mediaName, subtitles, history, historyIndex, heap, pending>>
  /\ UNCHANGED <<mediaUrl, processingStatus, dubAudioUrl, backendVars>>
  /\ Did("login", u)

HandleLogout ==
  /\ CanStep
  /\ viewMode = "admin-portal"
  /\ currentUser # NoUser
  /\ currentUser' = NoUser
  /\ viewMode' = "auth"
  /\ Install(NewRef(heap), history, pending, Alloc(heap, <<>>))
  /\ mediaUrl' = NoUrl
  /\ UNCHANGED <<mediaName, historyIndex, processingStatus, dubAudioUrl, fileInput, backendVars>>
  /\ Did("logout", <<>>)

\* navigation that does not look at the role of the user
SetViewModeAnyRole(from, to) ==
  /\ CanStep
  /\ viewMode = from
  /\ viewMode' = to
  /\ fileInput' = IF to = "workspace" THEN fileInput ELSE FALSE
  /\ UNCHANGED <<currentUser, mediaUrl, mediaName, subtitles, history, historyIndex,
                 processingStatus, dubAudioUrl, heap, pending, backendVars>>
  /\ Did("view", to)

\* AdminPortal onSelect / AdminDashboard onClose / the ADMIN back link: the
\* portal is rendered only with a current user, the dashboard whoever the
\* user is, the links of the workspace only for an admin
SetViewMode(from, to) ==
  /\ CanStep
  /\ viewMode = from
  /\ from = "admin-portal" => currentUser # NoUser
  /\ from = "workspace" => currentUser.role = "admin"
  /\ viewMode' = to
  /\ fileInput' = IF to = "workspace" THEN fileInput ELSE FALSE
  /\ UNCHANGED <<currentUser, mediaUrl, mediaName, subtitles, history, historyIndex,
                 processingStatus, dubAudioUrl, heap, pending, backendVars>>
  /\ Did("view", to)

AdminNavigate ==
  \/ SetViewMode("admin-portal", "admin-dashboard")
  \/ SetViewMode("admin-portal", "workspace")
  \/ SetViewMode("admin-dashboard", "admin-portal")
  \/ SetViewMode("workspace", "admin-portal") /\ subtitles # Undefined

\* ------------------------------------------------------- history handlers
\* redo with the bound test off by one
RedoPastEnd ==
  /\ CanStep
  /\ InWorkspace
  /\ IF historyIndex < Len(history)
     THEN /\ historyIndex' = historyIndex + 1
          /\ Install(HistAt(history, historyIndex + 1), history, pending, heap)
     ELSE UNCHANGED <<historyIndex, subtitles, history, pending, heap>>
  /\ UNCHANGED <<currentUser, viewMode, mediaUrl, mediaName, processingStatus,
                 dubAudioUrl, fileInput, backendVars>>
  /\ Did("redo", [moved |-> historyIndex < Len(history) - 1])

\* addToHistory(newSubtitles) as the handler of closure c sees it
AddToHistory(c, subs, pend, hp) ==
  /\ Install(subs, NewHistory(c, subs), pend, hp)
  /\ historyIndex' = Len(NewHistory(c, subs)) - 1
  /\ userData' = AddToHistoryData(c, hp[subs])

\* undo and redo as functions; their buttons are disabled at the bounds
\* (historyIndex <= 0, historyIndex >= history.length - 1), where the
\* functions do nothing
Undo ==
  /\ CanStep
  /\ InWorkspace
  /\ IF historyIndex > 0
     THEN /\ historyIndex' = historyIndex - 1
          /\ Install(HistAt(history, historyIndex - 1), history, pending, heap)
     ELSE UNCHANGED <<historyIndex, subtitles, history, pending, heap>>
  /\ UNCHANGED <<currentUser, viewMode, mediaUrl, mediaName, processingStatus,
                 dubAudioUrl, fileInput, backendVars>>
  /\ Did("undo", [moved |-> historyIndex > 0])

Redo ==
  /\ CanStep
  /\ InWorkspace
  /\ IF historyIndex < Len(history) - 1
     THEN /\ historyIndex' = historyIndex + 1
          /\ Install(HistAt(history, historyIndex + 1), history, pending, heap)
     ELSE UNCHANGED <<historyIndex, subtitles, history, pending, heap>>
  /\ UNCHANGED <<currentUser, viewMode, mediaUrl, mediaName, processingStatus,
                 dubAudioUrl, fileInput, backendVars>>
  /\ Did("redo", [moved |-> historyIndex < Len(history) - 1])

\* ------------------------------------------------------- cue functions
\* geminiService.ts: one raw response entry -> Subtitle (id `auto-${index}-...`;
\* the index is what tells the cues of one response apart)
ToSubtitle(item, index) ==
  [id |-> index, startTime |-> item.startTime, endTime |-> item.endTime,
   text |-> item.text, originalText |-> NoText,
   speaker |-> "Unknown", confidence |-> 95]

GeneratedSubtitles(raw) == [i \in 1..Len(raw) |-> ToSubtitle(raw[i], i - 1)]

GenResponses == UNION { [1..n -> RawItems] : n \in 0..MaxCues }

\* translationMap.get(sub.id) || sub.text ; sub.originalText || sub.text
Truthy(t) == t # NoText /\ t # <<"">>

TranslateCue(sub, resp) ==
  [sub EXCEPT
     !.originalText = IF Truthy(sub.originalText) THEN sub.originalText ELSE <<sub.text>>,
     !.text = IF sub.id \in DOMAIN resp /\ resp[sub.id] # "" THEN resp[sub.id] ELSE sub.text]

Translated(cues, resp) == [i \in 1..Len(cues) |-> TranslateCue(cues[i], resp)]

TransResponses == UNION { [D -> Translations] : D \in SUBSET CueIds }

\* a shift that keeps the duration of a cue whose start is clamped
ShiftCueKeepDuration(sub, offsetMs) ==
  [sub EXCEPT !.startTime = Max(0, sub.startTime + offsetMs),
              !.endTime = Max(0, sub.startTime + offsetMs) + (sub.endTime - sub.startTime)]

\* handleSync's map
ShiftCue(sub, offsetMs) ==
  [sub EXCEPT !.startTime = Max(0, sub.startTime + offsetMs),
              !.endTime = Max(0, sub.endTime + offsetMs)]

Shifted(cues, offsetMs) == [i \in 1..Len(cues) |-> ShiftCue(cues[i], offsetMs)]

\* an update that ignores the id it is given
UpdatedEvery(cues, id, updates) ==
  [i \in 1..Len(cues) |->
     [f \in DOMAIN cues[i] |-> IF f \in DOMAIN updates THEN updates[f] ELSE cues[i][f]]]

\* { ...s, ...updates }
Merge(s, updates) ==
  [f \in DOMAIN s |-> IF f \in DOMAIN updates THEN updates[f] ELSE s[f]]

Updated(cues, id, updates) ==
  [i \in 1..Len(cues) |-> IF cues[i].id = id THEN Merge(cues[i], updates) ELSE cues[i]]

Deleted(cues, id) == SelectSeq(cues, LAMBDA s : s.id # id)

\* an overlay that ends a cue just before its end time
ActiveAtExclusive(cues, t) ==
  SelectSeq(cues, LAMBDA s : t >= s.startTime /\ t < s.endTime)

\* the cues of the subtitle overlay at playback time t
ActiveAt(cues, t) ==
  SelectSeq(cues, LAMBDA s : t >= s.startTime /\ t <= s.endTime)

\* Array.prototype.sort((a, b) => a.startTime - b.startTime): stable
RECURSIVE InsertByStart(_, _)
InsertByStart(sorted, s) ==
  IF sorted = <<>> THEN <<s>>
  ELSE IF sorted[Len(sorted)].startTime <= s.startTime THEN Append(sorted, s)
  ELSE Append(InsertByStart(SubSeq(sorted, 1, Len(sorted) - 1), s), sorted[Len(sorted)])

RECURSIVE SortByStart(_)
SortByStart(cues) ==
  IF cues = <<>> THEN <<>>
  ELSE InsertByStart(SortByStart(SubSeq(cues, 1, Len(cues) - 1)), cues[Len(cues)])

\* fullText.trim() is empty
NoTextToDub(cues) == \A i \in 1..Len(cues) : cues[i].text = ""

\* ------------------------------------------------------- workspace handlers
HandleFileUpload ==
  /\ CanStep
  /\ InWorkspace
  /\ Install(NewRef(heap), <<>>, pending, Alloc(heap, <<>>))
  /\ historyIndex' = -1
  /\ dubAudioUrl' = NoUrl
  /\ mediaName' = LocalFileName
  /\ mediaUrl' = LocalFileUrl
  /\ processingStatus' = "IDLE"
  /\ fileInput' = TRUE
  /\ UNCHANGED <<currentUser, viewMode, backendVars>>
  /\ Did("upload", <<>>)

HandleReset ==
  /\ CanStep
  /\ InWorkspace
  /\ Install(NewRef(heap), <<>>, pending, Alloc(heap, <<>>))
  /\ historyIndex' = -1
  /\ mediaUrl' = NoUrl
  /\ dubAudioUrl' = NoUrl
  /\ UNCHANGED <<currentUser, viewMode, mediaName, processingStatus, fileInput, backendVars>>
  /\ Did("reset", <<>>)

\* GoogleDrivePicker onConnect
DriveConnect ==
  /\ CanStep
  /\ InWorkspace
  /\ ~currentUser.googleDriveConnected
  /\ currentUser' = [currentUser EXCEPT !.googleDriveConnected = TRUE]
  /\ usersDb' = [u \in DOMAIN usersDb |-> IF u = currentUser.id THEN TRUE ELSE usersDb[u]]
  /\ UNCHANGED <<viewMode, mediaUrl, mediaName, subtitles, history, historyIndex,
                 processingStatus, dubAudioUrl, fileInput, heap, pending, userData>>
  /\ Did("driveConnect", <<>>)

\* GoogleDrivePicker onSelectFile (Drive import); the timer sets IDLE later
DriveSelectFile ==
  /\ CanStep
  /\ InWorkspace
  /\ currentUser.googleDriveConnected
  /\ processingStatus' = "UPLOADING"
  /\ mediaName' = DriveFileName
  /\ mediaUrl' = DriveFileUrl
  /\ Install(NewRef(heap), <<>>,
             Append(pending, NoState(Closure("driveTimer"))),
             Alloc(heap, <<>>))
  /\ dubAudioUrl' = NoUrl
  /\ UNCHANGED <<currentUser, viewMode, historyIndex, fileInput, backendVars>>
  /\ Did("driveImport", <<>>)

DriveTimerDone(k) ==
  /\ CanStep
  /\ subtitles # Undefined
  /\ pending[k].kind = "driveTimer"
  /\ processingStatus' = "IDLE"
  /\ Install(subtitles, history, Remove(pending, k), heap)
  /\ UNCHANGED <<currentUser, viewMode, mediaUrl, mediaName, historyIndex,
                 dubAudioUrl, fileInput, backendVars>>
  /\ Did("driveTimer", <<>>)

HandleSync(offsetMs) ==
  /\ CanStep
  /\ InWorkspace
  /\ AddToHistory(CurrentClosure, NewRef(heap), pending,
                  Alloc(heap, Shifted(Subs, offsetMs)))
  /\ UNCHANGED <<currentUser, viewMode, mediaUrl, mediaName, processingStatus,
                 dubAudioUrl, fileInput, usersDb>>
  /\ Did("sync", [offsetMs |-> offsetMs, cut |-> Cut(CurrentClosure)])

OnUpdateSubtitle(id, updates) ==
  /\ CanStep
  /\ InWorkspace
  /\ Install(NewRef(heap), history, pending, Alloc(heap, Updated(Subs, id, updates)))
  /\ UNCHANGED <<currentUser, viewMode, mediaUrl, mediaName, historyIndex,
                 processingStatus, dubAudioUrl, fileInput, backendVars>>
  /\ Did("update", [id |-> id, updates |-> updates])

OnCommitChanges ==
  /\ CanStep
  /\ InWorkspace
  /\ AddToHistory(CurrentClosure, subtitles, pending, heap)
  /\ UNCHANGED <<currentUser, viewMode, mediaUrl, mediaName, processingStatus,
                 dubAudioUrl, fileInput, usersDb>>
  /\ Did("commit", [cut |-> Cut(CurrentClosure)])

OnDeleteSubtitle(id) ==
  /\ CanStep
  /\ InWorkspace
  /\ AddToHistory(CurrentClosure, NewRef(heap), pending, Alloc(heap, Deleted(Subs, id)))
  /\ UNCHANGED <<currentUser, viewMode, mediaUrl, mediaName, processingStatus,
                 dubAudioUrl, fileInput, usersDb>>
  /\ Did("delete", [id |-> id, cut |-> Cut(CurrentClosure),
                    removed |-> Len(Subs) - Len(Deleted(Subs, id))])

\* ------------------------------------------------------- asynchronous handlers
Idle == processingStatus \in {"IDLE", "READY"}

\* handleGenerate up to its await (the button is disabled unless Idle)
HandleGenerate ==
  /\ CanStep
  /\ InWorkspace
  /\ Idle
  /\ IF ~fileInput
     THEN UNCHANGED <<processingStatus, subtitles, history, pending, heap>>
     ELSE /\ processingStatus' = "ANALYZING"
          /\ Install(subtitles, history, Append(pending, NoArrays(Closure("generate"))), heap)
  /\ UNCHANGED <<currentUser, viewMode, mediaUrl, mediaName, historyIndex,
                 dubAudioUrl, fileInput, backendVars>>
  /\ Did("generate", Before)

\* generateSubtitlesFromMedia resolved with the cues of `raw`
GenerateDone(k, raw) ==
  /\ CanStep
  /\ subtitles # Undefined
  /\ pending[k].kind = "generate"
  /\ AddToHistory(pending[k], NewRef(heap), Remove(pending, k),
                  Alloc(heap, GeneratedSubtitles(raw)))
  /\ processingStatus' = "READY"
  /\ UNCHANGED <<currentUser, viewMode, mediaUrl, mediaName, dubAudioUrl, fileInput, usersDb>>
  /\ Did("generated", [cut |-> Cut(pending[k])])

\* the awaited call of closure k rejected: the catch block
AsyncFailed(k, kind) ==
  /\ CanStep
  /\ subtitles # Undefined
  /\ pending[k].kind = kind
  /\ processingStatus' = "ERROR"
  /\ Install(subtitles, history, Remove(pending, k), heap)
  /\ UNCHANGED <<currentUser, viewMode, mediaUrl, mediaName, historyIndex,
                 dubAudioUrl, fileInput, backendVars>>
  /\ Did("failed", kind)

\* handleTranslate up to its await (the menu is never disabled)
HandleTranslate ==
  /\ CanStep
  /\ InWorkspace
  /\ IF Len(Subs) = 0
     THEN UNCHANGED <<processingStatus, subtitles, history, pending, heap>>
     ELSE /\ processingStatus' = "TRANSLATING"
          /\ Install(subtitles, history, Append(pending, Closure("translate")), heap)
  /\ UNCHANGED <<currentUser, viewMode, mediaUrl, mediaName, historyIndex,
                 dubAudioUrl, fileInput, backendVars>>
  /\ Did("translate", Before)

\* translateSubtitlesWithGemini resolved with response `resp`
TranslateDone(k, resp) ==
  /\ CanStep
  /\ subtitles # Undefined
  /\ pending[k].kind = "translate"
  /\ AddToHistory(pending[k], NewRef(heap), Remove(pending, k),
                  Alloc(heap, Translated(heap[pending[k].subtitles], resp)))
  /\ processingStatus' = "READY"
  /\ UNCHANGED <<currentUser, viewMode, mediaUrl, mediaName, dubAudioUrl, fileInput, usersDb>>
  /\ Did("translated", [resp |-> resp, cut |-> Cut(pending[k])])

\* handleDubbing up to its await: the script is compiled by sorting the
\* state array in place
\* (first: a start of dubbing that publishes a resource before the call ends)
HandleDubbingPublishing ==
  /\ CanStep
  /\ InWorkspace
  /\ Idle
  /\ IF Len(Subs) = 0
     THEN UNCHANGED <<processingStatus, subtitles, history, pending, heap,
                      dubAudioUrl>>
     ELSE LET sorted == [heap EXCEPT ![subtitles] = SortByStart(Subs)]
          IN IF NoTextToDub(Subs)
             THEN /\ processingStatus' = "ERROR"
                  /\ Install(subtitles, history, pending, sorted)
                  /\ UNCHANGED dubAudioUrl
             ELSE /\ processingStatus' = "ANALYZING"
                  /\ Install(subtitles, history,
                             Append(pending, NoState(Closure("dub"))), sorted)
                  /\ dubAudioUrl' = DubUrl
  /\ UNCHANGED <<currentUser, viewMode, mediaUrl, mediaName, historyIndex,
                 fileInput, backendVars>>
  /\ Did("dub", Before)

HandleDubbing ==
  /\ CanStep
  /\ InWorkspace
  /\ Idle
  /\ IF Len(Subs) = 0
     THEN UNCHANGED <<processingStatus, subtitles, history, pending, heap>>
     ELSE LET sorted == [heap EXCEPT ![subtitles] = SortByStart(Subs)]
          IN IF NoTextToDub(Subs)
             THEN /\ processingStatus' = "ERROR"
                  /\ Install(subtitles, history, pending, sorted)
             ELSE /\ processingStatus' = "ANALYZING"
                  /\ Install(subtitles, history,
                             Append(pending, NoState(Closure("dub"))), sorted)
  /\ UNCHANGED <<currentUser, viewMode, mediaUrl, mediaName, historyIndex,
                 dubAudioUrl, fileInput, backendVars>>
  /\ Did("dub", Before)

\* generateDubbedAudio resolved
DubbingDone(k) ==
  /\ CanStep
  /\ subtitles # Undefined
  /\ pending[k].kind = "dub"
  /\ dubAudioUrl' = DubUrl
  /\ processingStatus' = "READY"
  /\ Install(subtitles, history, Remove(pending, k), heap)
  /\ UNCHANGED <<currentUser, viewMode, mediaUrl, mediaName, historyIndex,
                 fileInput, backendVars>>
  /\ Did("dubbed", <<>>)

\* ------------------------------------------------------- specification
Session ==
  \/ \E u \in UserIds : HandleLoginSuccess(u)
  \/ HandleLogout
  \/ AdminNavigate

Project ==
  \/ HandleFileUpload
  \/ HandleReset
  \/ DriveConnect
  \/ DriveSelectFile

Edit ==
  \/ \E o \in SyncOffsets : HandleSync(o)
  \/ \E id \in CueIds, u \in UpdateFields : OnUpdateSubtitle(id, u)
  \/ OnCommitChanges
  \/ \E id \in CueIds : OnDeleteSubtitle(id)
  \/ Undo
  \/ Redo

Start ==
  \/ HandleGenerate
  \/ HandleTranslate
  \/ HandleDubbing

Complete ==
  \E k \in 1..Len(pending) :
    \/ DriveTimerDone(k)
    \/ \E raw \in GenResponses : GenerateDone(k, raw)
    \/ \E resp \in TransResponses : TranslateDone(k, resp)
    \/ DubbingDone(k)
    \/ \E kind \in {"generate", "translate", "dub"} : AsyncFailed(k, kind)

Next == Session \/ Project \/ Edit \/ Start \/ Complete

Spec == Init /\ [][Next]_vars

\* ------------------------------------------------------- views
RedoPossible == historyIndex < Len(history) - 1
CommitOps == {"sync", "commit", "delete", "generated", "translated"}
Ids(cues) == { cues[i].id : i \in 1..Len(cues) }

Distinct(cues) == \A i, j \in 1..Len(cues) : i # j => cues[i].id # cues[j].id
WellTimed(s) == s.startTime >= 0 /\ s.endTime >= 0 /\ s.endTime >= s.startTime

\* the history a commit of the cue list `cues` produces from the history and
\* the cursor of the state it runs in
Committed(cues) == Append(Slice(Snapshots, historyIndex + 1), cues)

\* ------------------------------------------------------- C1
\* C1: a commit of s on the history H with cursor c leaves the history
\* H[0..c] followed by s and the cursor on the last index, whichever handler
\* commits (nudge, explicit commit, delete, a finished transcription or
\* translation); and redo can become effective again only by an undo.
\* H and c are the history and the cursor of the application when the commit
\* happens.
C1_CommitTruncatesAndAppends ==
  [][ /\ last'.op \in CommitOps =>
           /\ Snapshots' = Committed(heap'[subtitles'])
           /\ historyIndex' = Len(history') - 1
           /\ ~RedoPossible'
      /\ (~RedoPossible /\ RedoPossible') => last'.op = "undo"
    ]_vars

\* the same contract for the handlers that commit without awaiting anything
CommitOfSynchronousHandlers ==
  [][ /\ last'.op \in {"sync", "commit", "delete"} =>
           /\ Snapshots' = Committed(heap'[subtitles'])
           /\ historyIndex' = Len(history') - 1
      /\ (~RedoPossible /\ RedoPossible') => last'.op = "undo"
    ]_vars

\* ------------------------------------------------------- C2
\* C2: in every reachable state the cursor is -1 when the history is empty
\* and a valid index of it otherwise.
C2_CursorValid ==
  IF Len(history) = 0 THEN historyIndex = -1
  ELSE 0 <= historyIndex /\ historyIndex < Len(history)

\* ------------------------------------------------------- C3
\* C3: undo with cursor > 0 moves the cursor down by exactly one and makes the
\* Cue Store the snapshot at the new cursor, a defined cue list; undo with
\* cursor <= 0 changes neither the cursor, the history nor the Cue Store.
C3_Undo ==
  [][ last'.op = "undo" =>
        IF historyIndex > 0
        THEN /\ historyIndex' = historyIndex - 1
             /\ subtitles' # Undefined
             /\ historyIndex' < Len(history')
             /\ heap'[subtitles'] = Snapshots'[historyIndex' + 1]
        ELSE /\ historyIndex' = historyIndex
             /\ Snapshots' = Snapshots
             /\ heap'[subtitles'] = Subs
    ]_vars

\* ------------------------------------------------------- C4
\* C4: redo with the cursor below the last index moves the cursor up by
\* exactly one and makes the Cue Store the snapshot at the new cursor; at the
\* last index or on an empty history it changes neither the cursor nor the
\* Cue Store; undo and redo never change the snapshot sequence.
C4_Redo ==
  [][ /\ last'.op = "redo" =>
           IF historyIndex < Len(history) - 1
           THEN /\ historyIndex' = historyIndex + 1
                /\ subtitles' # Undefined
                /\ heap'[subtitles'] = Snapshots'[historyIndex' + 1]
           ELSE /\ historyIndex' = historyIndex
                /\ subtitles' # Undefined
                /\ heap'[subtitles'] = Subs
      /\ last'.op \in {"undo", "redo"} => Snapshots' = Snapshots
    ]_vars

\* a redo that moved the cursor onto the last snapshot, after an undo
C4_RedoMoved ==
  /\ last.op = "redo"
  /\ last.arg.moved
  /\ Len(history) >= 2
  /\ historyIndex = Len(history) - 1
  /\ Subs = Snapshots[Len(history)]
  /\ Subs # Snapshots[Len(history) - 1]

\* ------------------------------------------------------- C5
\* C5: right after a project reset, a local file import or a Drive import the
\* history is empty and the cursor is -1.
C5_HistoryResetOnNewProject ==
  last.op \in {"reset", "upload", "driveImport"} =>
    Len(history) = 0 /\ historyIndex = -1

\* ------------------------------------------------------- C6
\* C6: a nudge by d ms replaces each start and each end by max(0, . + d), each
\* bound on its own, keeps ids, texts, the other fields and the cue order,
\* yields no negative time and commits exactly one snapshot, the shifted
\* list; cues (0,2,Hi),(2,5,There) nudged by -1000 ms become (0,1,Hi),(1,4,There).
ScenarioA ==
  << [id |-> 0, startTime |-> 0, endTime |-> 2000, text |-> "Hi",
      originalText |-> NoText, speaker |-> "Unknown", confidence |-> 95],
     [id |-> 1, startTime |-> 2000, endTime |-> 5000, text |-> "There",
      originalText |-> NoText, speaker |-> "Unknown", confidence |-> 95] >>

ScenarioAShifted ==
  << [ScenarioA[1] EXCEPT !.startTime = 0, !.endTime = 1000],
     [ScenarioA[2] EXCEPT !.startTime = 1000, !.endTime = 4000] >>

C6_ShiftAll ==
  [][ last'.op = "sync" =>
        LET d == last'.arg.offsetMs
            old == Subs
            new == heap'[subtitles']
        IN /\ Len(new) = Len(old)
           /\ \A i \in 1..Len(old) :
                /\ new[i].startTime =
                     IF old[i].startTime + d > 0 THEN old[i].startTime + d ELSE 0
                /\ new[i].endTime =
                     IF old[i].endTime + d > 0 THEN old[i].endTime + d ELSE 0
                /\ new[i].startTime >= 0
                /\ new[i].endTime >= 0
                /\ \A f \in DOMAIN old[i] \ {"startTime", "endTime"} :
                     new[i][f] = old[i][f]
           /\ Snapshots' = Committed(new)
           /\ historyIndex' = Len(history') - 1
           /\ Shifted(ScenarioA, -1000) = ScenarioAShifted
    ]_vars

\* a nudge to the left that clamped the start of a cue and not its end, so
\* that the cue got shorter
C6_ShiftClamped ==
  /\ last.op = "sync"
  /\ last.arg.offsetMs = -500
  /\ Len(Subs) = 2
  /\ Subs[1].startTime = 0 /\ Subs[1].endTime = 0
  /\ Subs[2].startTime = 0 /\ Subs[2].endTime = 500
  /\ Len(history) >= 2
  /\ Snapshots[Len(history)] = Subs
  /\ Snapshots[Len(history) - 1][1].endTime = 500

\* ------------------------------------------------------- C7
\* C7: delete(id) removes exactly the one cue with that id, keeps the other
\* cues and their order, commits the result as one snapshot, and an undo
\* right after the delete yields a Cue Store holding a cue with that id again.
C7_Delete ==
  [][ /\ last'.op = "delete" =>
           LET id == last'.arg.id
               old == Subs
               new == heap'[subtitles']
           IN /\ new = SelectSeq(old, LAMBDA s : s.id # id)
              /\ Len(new) = IF id \in Ids(old) THEN Len(old) - 1 ELSE Len(old)
              /\ Snapshots' = Committed(new)
              /\ historyIndex' = Len(history') - 1
      /\ (last.op = "delete" /\ last.arg.removed > 0 /\ last'.op = "undo") =>
           /\ subtitles' # Undefined
           /\ last.arg.id \in Ids(heap'[subtitles'])
    ]_vars

\* ------------------------------------------------------- C8
\* C8: update(id, fields) merges the fields into the cues with that id and
\* leaves every other cue as it is; with no such cue the list is unchanged;
\* the history, the cursor and the persisted projects are unchanged; the
\* explicit commit then stores the Cue Store, as it is, as one snapshot.
C8_Update ==
  [][ /\ last'.op = "update" =>
           LET id == last'.arg.id
               fields == last'.arg.updates
               old == Subs
               new == heap'[subtitles']
           IN /\ Len(new) = Len(old)
              /\ \A i \in 1..Len(old) :
                   IF old[i].id = id
                   THEN \A f \in DOMAIN old[i] :
                          new[i][f] = IF f \in DOMAIN fields THEN fields[f] ELSE old[i][f]
                   ELSE new[i] = old[i]
              /\ (id \notin Ids(old) => new = old)
              /\ Snapshots' = Snapshots
              /\ historyIndex' = historyIndex
              /\ userData' = userData
      /\ last'.op = "commit" =>
           /\ heap'[subtitles'] = Subs
           /\ Snapshots' = Committed(Subs)
    ]_vars

\* an update changed the text of one cue of two and is not committed yet
C8_UpdatedUncommitted ==
  /\ last.op = "update"
  /\ last.arg.updates = [text |-> ""]
  /\ Len(Subs) = 2
  /\ \E i, j \in 1..2 :
       /\ Subs[i].id = last.arg.id /\ Subs[i].text = ""
       /\ Subs[j].id # last.arg.id /\ Subs[j].text # ""
  /\ C2_CursorValid
  /\ historyIndex >= 0
  /\ Snapshots[historyIndex + 1] # Subs
  /\ currentUser # NoUser
  /\ LoadUserWork(userData, currentUser.id) # <<>>
  /\ LoadUserWork(userData, currentUser.id)[1].subtitles # Subs

\* ------------------------------------------------------- C9
\* C9: in every reachable state the cues of the Cue Store have pairwise
\* distinct ids, whatever updates (of any fields), translations, nudges,
\* undos and redos were made.
C9_UniqueIds == subtitles # Undefined => Distinct(Subs)

\* ------------------------------------------------------- C10
\* C10: in every reachable state every cue of the Cue Store has a start and an
\* end >= 0 and an end >= its start.
C10_TimesOrdered ==
  subtitles # Undefined => \A i \in 1..Len(Subs) : WellTimed(Subs[i])

\* ------------------------------------------------------- C11
\* the history closure c captured, by content
SnapshotsOf(c) == [i \in 1..Len(c.history) |-> heap[c.history[i]]]

\* C11: a snapshot in the history is never modified: a step either leaves the
\* whole snapshot sequence as it is, or replaces the history (reset, import,
\* project load), or is a commit, which keeps the snapshots up to the cursor
\* its handler saw exactly as they were and adds the new one.
C11_SnapshotsImmutable ==
  [][ \/ Snapshots' = Snapshots
      \/ /\ last'.op \in {"reset", "upload", "driveImport"}
         /\ Snapshots' = <<>>
      \/ /\ last'.op = "login"
         /\ Len(history') = 1
      \/ /\ last'.op \in {"sync", "commit", "delete"}
         /\ Snapshots' = Committed(heap'[subtitles'])
      \/ /\ last'.op \in {"generated", "translated"}
         /\ \E k \in 1..Len(pending) :
              Snapshots' = Append(Slice(SnapshotsOf(pending[k]),
                                        pending[k].historyIndex + 1),
                                  heap'[subtitles'])
    ]_vars

\* ------------------------------------------------------- C12
\* C12: a commit made while a user is logged in persists the committed list
\* with the current project name, so that loading the user's project right
\* after it returns exactly that list and name; there is at most one record
\* per user id; a commit with no user logged in leaves the records unchanged.
OneRecordPerUser ==
  \A i, j \in 1..Len(userData) : i # j => userData[i].userId # userData[j].userId

C12_CommitPersists ==
  [][ /\ last'.op \in CommitOps =>
           IF currentUser' # NoUser
           THEN LoadUserWork(userData', currentUser'.id) =
                  << [userId |-> currentUser'.id,
                      subtitles |-> heap'[subtitles'],
                      mediaName |-> mediaName'] >>
           ELSE userData' = userData
      /\ OneRecordPerUser'
    ]_vars

\* ------------------------------------------------------- C13
\* C13: for every time t the overlay shows exactly the cues of the Cue Store
\* with startTime <= t <= endTime, both bounds included, all of them when
\* several overlap, in store order, whether or not the store is sorted.
ActiveIndices(cues, t) ==
  { i \in 1..Len(cues) : cues[i].startTime <= t /\ t <= cues[i].endTime }

C13_ActiveAt ==
  subtitles # Undefined =>
    \A t \in PlayTimes :
      LET r == ActiveAt(Subs, t)
          I == ActiveIndices(Subs, t)
      IN /\ Len(r) = Cardinality(I)
         /\ \E f \in [1..Len(r) -> I] :
              /\ \A a, b \in 1..Len(r) : a < b => f[a] < f[b]
              /\ \A k \in 1..Len(r) : r[k] = Subs[f[k]]

\* media is loaded, the store is not in start order, and two cues are shown
\* at the instant that is the end of one and the start of the other
C13_OverlapUnsorted ==
  /\ subtitles # Undefined
  /\ mediaUrl # NoUrl
  /\ Len(Subs) = 2
  /\ Subs[1].startTime = 500 /\ Subs[2].endTime = 500
  /\ Subs[2].startTime < Subs[1].startTime
  /\ ActiveAt(Subs, 500) = Subs
  /\ ActiveAt(Subs, 250) = << Subs[2] >>
  /\ ActiveAt(Subs, 1500) = <<>>

\* =================================================== translation function
\* translateSubtitlesWithGemini as a function of the cue list and the
\* response, applied to cue lists as transcription creates them and then to
\* its own results, with text edits in between.
TrTexts == {"", "Hi"}

FreshCues(texts) ==
  [i \in 1..Len(texts) |->
     ToSubtitle([startTime |-> 500 * (i - 1), endTime |-> 500 * i, text |-> texts[i]],
                i - 1)]

TrInputs == { FreshCues(texts) : texts \in UNION { [1..n -> TrTexts] : n \in 0..MaxCues } }

TextOf(cues, id) == cues[CHOOSE i \in 1..Len(cues) : cues[i].id = id].text

TranslateInit ==
  /\ AppParked
  /\ ShiftIdle
  /\ IoIdle
  /\ ChunkIdle
  /\ DubIdle
  /\ PlayerMounted
  /\ trSubs \in TrInputs
  /\ trFirst = [id \in CueIds |-> NoText]
  /\ trLast = [op |-> "init"]
  /\ trRound = 0

\* the response resp arrives and is applied to the list
ApplyTranslation(resp) ==
  /\ trRound < MaxTranslations
  /\ trSubs' = Translated(trSubs, resp)
  /\ trFirst' = [id \in CueIds |->
                   IF trFirst[id] = NoText /\ id \in Ids(trSubs)
                   THEN << TextOf(trSubs, id) >> ELSE trFirst[id]]
  /\ trLast' = [op |-> "translated", resp |-> resp, before |-> trSubs]
  /\ trRound' = trRound + 1
  /\ UNCHANGED <<appAll, chVars, dubVars, plVars, shVars, ioVars>>

\* the user retypes the text of a cue (onUpdateSubtitle)
EditText(id, text) ==
  /\ id \in Ids(trSubs)
  /\ trSubs' = Updated(trSubs, id, [text |-> text])
  /\ trLast' = [op |-> "edit", id |-> id]
  /\ UNCHANGED <<trFirst, trRound, appAll, chVars, dubVars, plVars, shVars, ioVars>>

TranslateNext ==
  \/ \E resp \in TransResponses : ApplyTranslation(resp)
  \/ \E id \in CueIds, text \in TrTexts : EditText(id, text)

SpecTranslate == TranslateInit /\ [][TranslateNext]_vars

\* ------------------------------------------------------- C14
\* C14: when a translation response is applied, a cue whose id is missing
\* from the response keeps its text, a cue whose id is in the response gets
\* the translated text of the response, and the number of cues, their order,
\* ids, start and end times are unchanged.
C14_TranslationApplied ==
  [][ trLast'.op = "translated" /\ trRound' # trRound =>
        LET resp == trLast'.resp
            old == trSubs
            new == trSubs'
        IN /\ Len(new) = Len(old)
           /\ \A i \in 1..Len(old) :
                /\ new[i].id = old[i].id
                /\ new[i].startTime = old[i].startTime
                /\ new[i].endTime = old[i].endTime
                /\ new[i].text = IF old[i].id \in DOMAIN resp THEN resp[old[i].id]
                                 ELSE old[i].text
    ]_vars

\* ------------------------------------------------------- C15
\* C15: once a cue has been translated, its originalText is the text it had
\* before its first translation, whatever that text was, and stays that
\* through every later translation and edit.
C15_OriginalTextSetOnce ==
  \A i \in 1..Len(trSubs) :
    trFirst[trSubs[i].id] # NoText => trSubs[i].originalText = trFirst[trSubs[i].id]

\* ------------------------------------------------------- C16
\* C16: a failing transcription, translation or dubbing applies nothing: the
\* step in which it fails sets the status ERROR and changes neither the Cue
\* Store (content and order) nor the history, and when the failure follows
\* the start of the operation directly, the Cue Store and the history are
\* exactly what the operation found when it started.
KindOf(op) ==
  IF op = "generate" THEN "generate" ELSE IF op = "translate" THEN "translate" ELSE "dub"

C16_FailureAppliesNothing ==
  [][ /\ (last'.op = "failed" \/ (last'.op = "dub" /\ processingStatus' = "ERROR")) =>
           /\ processingStatus' = "ERROR"
           /\ heap'[subtitles'] = Subs
           /\ Snapshots' = Snapshots
           /\ historyIndex' = historyIndex
      /\ ( /\ last.op \in {"generate", "translate", "dub"}
           /\ last'.op = "failed"
           /\ last'.arg = KindOf(last.op) ) =>
           /\ heap'[subtitles'] = last.arg.subs
           /\ Snapshots' = last.arg.snaps
           /\ historyIndex' = last.arg.cursor
    ]_vars

\* =================================================== splitTextIntoChunks
\* Strings are sequences of characters.  "." stands for the sentence-ending
\* characters . ! ? (the regular expression treats them alike), " " for
\* white space, "a" and "b" for every other character.
Chars == {"a", "b", " ", "."}
Terminators == {"."}
Space == " "

ChunkTexts == UNION { [1..n -> Chars] : n \in 0..MaxTextLen }

\* the last index of the run of characters in (or not in) Terminators that
\* starts at p
RECURSIVE RunEnd(_, _, _)
RunEnd(text, p, inTerm) ==
  IF p < Len(text) /\ ((text[p + 1] \in Terminators) = inTerm)
  THEN RunEnd(text, p + 1, inTerm)
  ELSE p

\* text.match(/[^.!?]+[.!?]+|[^.!?]+$/g), scanning from position p
RECURSIVE MatchFrom(_, _)
MatchFrom(text, p) ==
  IF p > Len(text) THEN <<>>
  ELSE IF text[p] \in Terminators THEN MatchFrom(text, p + 1)
  ELSE LET q == RunEnd(text, p, FALSE)
       IN IF q = Len(text)
          THEN << SubSeq(text, p, q) >>
          ELSE LET r == RunEnd(text, q + 1, TRUE)
               IN << SubSeq(text, p, r) >> \o MatchFrom(text, r + 1)

\* text.match(...) || [text]
Sentences(text) ==
  IF MatchFrom(text, 1) = <<>> THEN << text >> ELSE MatchFrom(text, 1)

\* String.prototype.trim
RECURSIVE TrimStart(_)
TrimStart(str) ==
  IF str # <<>> /\ Head(str) = Space THEN TrimStart(Tail(str)) ELSE str

RECURSIVE TrimEnd(_)
TrimEnd(str) ==
  IF str # <<>> /\ str[Len(str)] = Space
  THEN TrimEnd(SubSeq(str, 1, Len(str) - 1)) ELSE str

Trim(str) == TrimEnd(TrimStart(str))

\* a push that keeps the untrimmed chunk out of the result
PushNothing(chunks, currentChunk) == chunks

PushTrimmed(chunks, currentChunk) ==
  IF Trim(currentChunk) # <<>> THEN Append(chunks, Trim(currentChunk)) ELSE chunks

\* the for loop over the sentences from index i, then the final push
RECURSIVE ChunkLoop(_, _, _, _, _)
ChunkLoop(sentences, i, chunks, currentChunk, maxChunkSize) ==
  IF i > Len(sentences) THEN PushTrimmed(chunks, currentChunk)
  ELSE IF Len(currentChunk \o sentences[i]) > maxChunkSize
       THEN ChunkLoop(sentences, i + 1, PushTrimmed(chunks, currentChunk),
                      sentences[i], maxChunkSize)
       ELSE ChunkLoop(sentences, i + 1, chunks,
                      currentChunk \o <<Space>> \o sentences[i], maxChunkSize)

SplitTextIntoChunks(text, maxChunkSize) ==
  ChunkLoop(Sentences(text), 1, <<>>, <<>>, maxChunkSize)

ChunkInit ==
  /\ AppParked
  /\ ShiftIdle
  /\ IoIdle
  /\ TranslateIdle
  /\ DubIdle
  /\ PlayerMounted
  /\ chText \in ChunkTexts
  /\ chChunks = <<>>
  /\ chDone = FALSE

CallSplitTextIntoChunks ==
  /\ ~chDone
  /\ chChunks' = SplitTextIntoChunks(chText, MaxChunkSize)
  /\ chDone' = TRUE
  /\ UNCHANGED <<chText, appAll, trVars, dubVars, plVars, shVars, ioVars>>

ChunkNext == CallSplitTextIntoChunks

SpecChunk == ChunkInit /\ [][ChunkNext]_vars

\* ---- views of a finished call
TheSentences == Sentences(chText)

RECURSIVE Flatten(_)
Flatten(strs) ==
  IF strs = <<>> THEN <<>> ELSE Head(strs) \o Flatten(Tail(strs))

\* the strings joined with single spaces
RECURSIVE JoinSpaces(_)
JoinSpaces(strs) ==
  IF strs = <<>> THEN <<>>
  ELSE IF Len(strs) = 1 THEN Head(strs)
  ELSE Head(strs) \o <<Space>> \o JoinSpaces(Tail(strs))

\* the characters of a string that are not white space, in order
NonSpace(str) == SelectSeq(str, LAMBDA c : c # Space)

\* C17: every chunk has at most the maximum size unless it is one sentence
\* that alone exceeds it, and every sentence that alone exceeds the maximum
\* size is a chunk of its own, whole.
C17_ChunkSize ==
  chDone =>
    /\ \A i \in DOMAIN chChunks :
         \/ Len(chChunks[i]) <= MaxChunkSize
         \/ \E j \in DOMAIN TheSentences :
              /\ Len(TheSentences[j]) > MaxChunkSize
              /\ chChunks[i] = Trim(TheSentences[j])
    /\ \A j \in DOMAIN TheSentences :
         Len(Trim(TheSentences[j])) > MaxChunkSize
           => \E i \in DOMAIN chChunks : chChunks[i] = Trim(TheSentences[j])

\* C18 as stated: the chunks joined with single spaces hold the characters
\* of the input text other than white space, each once and in order.
C18_NothingLost ==
  chDone => NonSpace(JoinSpaces(chChunks)) = NonSpace(chText)

\* C18, amended: the chunks joined with single spaces hold the characters
\* other than white space of the sentence units the text is split into, each
\* unit once and in order; sentence-ending characters in front of the first
\* unit belong to no unit.
C18_SentencesKept ==
  chDone => NonSpace(JoinSpaces(chChunks)) = NonSpace(Flatten(TheSentences))

\* a text of several sentence units packed into several chunks
C18_SeveralChunks ==
  /\ chDone
  /\ Len(TheSentences) >= 3
  /\ Len(chChunks) >= 2
  /\ \E i \in DOMAIN chChunks : \E c \in DOMAIN chChunks[i] :
       chChunks[i][c] = Space
  /\ \E i, j \in DOMAIN chText : chText[i] = "a" /\ chText[j] = "b"

\* =================================================== generateDubbedAudio
\* The chunks are known by their index 0..chunks.length-1; the audio of
\* chunk i is a buffer of bytes that all carry the value i.
NoAudioMessage == "No audio generated from batches."
FailedMessage == "Failed to generate audio dub."

\* catch (error) { throw new Error("Failed to generate audio dub.") }
Catch(message) == [kind |-> "error", message |-> FailedMessage]

\* Math.round((i / n) * 100)
RoundPercent(i, n) == (200 * i + n) \div (2 * n)

\* inlineData.data of a response, decoded: no bytes when it is missing or ""
AudioOf(i, len) == [k \in 1..len |-> i]

\* what a synthesis call does: return audio of some length, return no
\* audio, or throw
CallOutcomes ==
  { [kind |-> "audio", len |-> l] : l \in 1..MaxAudioLen }
    \cup { [kind |-> "empty", len |-> 0], [kind |-> "error", len |-> 0] }

ConcatenateAudioBuffers(buffers) == Flatten(buffers)

\* DataView.setUint32 and setUint16 with littleEndian = true
Uint32LE(v) ==
  << v % 256, (v \div 256) % 256, (v \div 65536) % 256,
     (v \div 16777216) % 256 >>
Uint16LE(v) == << v % 256, (v \div 256) % 256 >>

\* the character codes written by writeString
RiffTag == <<82, 73, 70, 70>>
WaveTag == <<87, 65, 86, 69>>
FmtTag == <<102, 109, 116, 32>>
DataTag == <<100, 97, 116, 97>>

HeaderLen == 44

\* a header whose RIFF size field counts the header in full
CreateWavHeaderFullSize(dataLength, sampleRate) ==
  RiffTag \o Uint32LE(HeaderLen + dataLength) \o WaveTag \o FmtTag
    \o Uint32LE(16) \o Uint16LE(1) \o Uint16LE(1)
    \o Uint32LE(sampleRate) \o Uint32LE(sampleRate * 2)
    \o Uint16LE(2) \o Uint16LE(16)
    \o DataTag \o Uint32LE(dataLength)

CreateWavHeader(dataLength, sampleRate) ==
  RiffTag \o Uint32LE(36 + dataLength) \o WaveTag \o FmtTag
    \o Uint32LE(16) \o Uint16LE(1) \o Uint16LE(1)
    \o Uint32LE(sampleRate) \o Uint32LE(sampleRate * 2)
    \o Uint16LE(2) \o Uint16LE(16)
    \o DataTag \o Uint32LE(dataLength)

\* rawPcmData, header, finalBuffer
FinalBuffer(buffers) ==
  LET rawPcmData == ConcatenateAudioBuffers(buffers)
      header == CreateWavHeader(Len(rawPcmData), 24000)
  IN ConcatenateAudioBuffers(<<header, rawPcmData>>)

DubInit ==
  /\ AppParked
  /\ ShiftIdle
  /\ IoIdle
  /\ TranslateIdle
  /\ ChunkIdle
  /\ PlayerMounted
  /\ dubChunks \in 0..MaxChunks
  /\ dubI = 0
  /\ dubPc = "loop"
  /\ dubBuffers = <<>>
  /\ dubProgress = <<>>
  /\ dubOutcomes = <<>>
  /\ dubResult = NoResult

DubUnchanged == UNCHANGED <<appAll, trVars, chVars, plVars, shVars, ioVars>>

\* loop head with i < chunks.length: report progress, issue the call
DubCall ==
  /\ dubPc = "loop"
  /\ dubI < dubChunks
  /\ dubProgress' = Append(dubProgress, RoundPercent(dubI, dubChunks))
  /\ dubPc' = "call"
  /\ UNCHANGED <<dubChunks, dubI, dubBuffers, dubOutcomes, dubResult>>
  /\ DubUnchanged

\* the awaited call ends
DubResponse(outcome) ==
  /\ dubPc = "call"
  /\ dubOutcomes' = Append(dubOutcomes, outcome.kind)
  /\ CASE outcome.kind = "audio" ->
            /\ dubBuffers' = Append(dubBuffers, AudioOf(dubI, outcome.len))
            /\ dubPc' = "delay"
            /\ UNCHANGED dubResult
       [] outcome.kind = "empty" ->
            /\ dubPc' = "delay"
            /\ UNCHANGED <<dubBuffers, dubResult>>
       [] outcome.kind = "error" ->
            /\ dubResult' = Catch("synthesis")
            /\ dubPc' = "done"
            /\ UNCHANGED dubBuffers
  /\ UNCHANGED <<dubChunks, dubI, dubProgress>>
  /\ DubUnchanged

\* the 100 ms pause ends, i++
DubDelay ==
  /\ dubPc = "delay"
  /\ dubI' = dubI + 1
  /\ dubPc' = "loop"
  /\ UNCHANGED <<dubChunks, dubBuffers, dubProgress, dubOutcomes, dubResult>>
  /\ DubUnchanged

\* loop head with i = chunks.length: the code after the loop
DubFinish ==
  /\ dubPc = "loop"
  /\ dubI = dubChunks
  /\ dubProgress' = Append(dubProgress, 100)
  /\ dubResult' = IF Len(dubBuffers) = 0
                  THEN Catch(NoAudioMessage)
                  ELSE [kind |-> "url", data |-> FinalBuffer(dubBuffers)]
  /\ dubPc' = "done"
  /\ UNCHANGED <<dubChunks, dubI, dubBuffers, dubOutcomes>>
  /\ DubUnchanged

DubNext ==
  \/ DubCall
  \/ \E outcome \in CallOutcomes : DubResponse(outcome)
  \/ DubDelay
  \/ DubFinish

SpecDub == DubInit /\ [][DubNext]_vars

\* ---- views of a call of generateDubbedAudio
Returned == dubPc = "done"
OutcomeKinds == Range(dubOutcomes)

\* the bytes of a resource behind its first 44
Payload(data) == SubSeq(data, HeaderLen + 1, Len(data))

\* C19: a chunk without audio neither ends the batch nor is called again;
\* the call fails exactly if no chunk produced audio, and then with the
\* error that tells "no audio generated" apart from other failures; with
\* chunk 2 of 3 empty the resource holds the audio of chunks 1 and 3 in
\* that order.
C19_EmptyChunkSkipped ==
  /\ dubPc \in {"delay", "loop"} /\ dubOutcomes # <<>>
       /\ dubOutcomes[Len(dubOutcomes)] = "empty"
       => /\ dubResult = NoResult
          /\ Len(dubOutcomes) = IF dubPc = "delay" THEN dubI + 1 ELSE dubI
  /\ Returned =>
       /\ (dubResult.kind = "error") <=> ("audio" \notin OutcomeKinds)
       /\ dubResult.kind = "error" /\ "error" \notin OutcomeKinds
            => dubResult.message = NoAudioMessage
       /\ dubResult.kind = "error" /\ "error" \in OutcomeKinds
            => dubResult.message # NoAudioMessage
       /\ dubChunks = 3 /\ dubOutcomes = <<"audio", "empty", "audio">>
            => /\ dubResult.kind = "url"
               /\ \E l1, l3 \in 1..MaxAudioLen :
                    Payload(dubResult.data) = AudioOf(0, l1) \o AudioOf(2, l3)

\* C20: a synthesis call that fails for one chunk is absorbed: every chunk is
\* still called, and the batch succeeds if some chunk produced audio.
C20_ChunkFailureAbsorbed ==
  Returned =>
    /\ Len(dubOutcomes) = dubChunks
    /\ "audio" \in OutcomeKinds => dubResult.kind = "url"

\* ---- onProgress
\* calls that had ended when the k-th progress value was reported
CallsEndedAt(k) == k - 1

\* C21: the progress values are within 0..100 and never decrease; the value
\* reported after k ended calls is k/n on the scale 0..100 (to the nearest
\* integer); 100 is reported only after the call of the last chunk has
\* returned, and never in a batch that ends in failure.
C21_Progress ==
  /\ \A k \in DOMAIN dubProgress : dubProgress[k] \in 0..100
  /\ \A j, k \in DOMAIN dubProgress : j <= k => dubProgress[j] <= dubProgress[k]
  /\ \A k \in DOMAIN dubProgress :
       dubChunks > 0 =>
         /\ 2 * (dubProgress[k] * dubChunks - 100 * CallsEndedAt(k)) <= dubChunks
         /\ 2 * (100 * CallsEndedAt(k) - dubProgress[k] * dubChunks) <= dubChunks
  /\ 100 \in Range(dubProgress) =>
       /\ Len(dubOutcomes) = dubChunks
       /\ "error" \notin OutcomeKinds
  /\ Returned /\ dubResult.kind = "error" => 100 \notin Range(dubProgress)

\* ---- the resource
\* the number a little-endian field of four bytes holds
FieldAt(data, first) ==
  data[first] + 256 * data[first + 1] + 65536 * data[first + 2]
    + 16777216 * data[first + 3]

\* the chunks, in order, whose call returned audio
RECURSIVE AudioChunksFrom(_)
AudioChunksFrom(i) ==
  IF i >= Len(dubOutcomes) THEN <<>>
  ELSE (IF dubOutcomes[i + 1] = "audio" THEN <<i>> ELSE <<>>)
         \o AudioChunksFrom(i + 1)
AudioChunks == AudioChunksFrom(0)

\* C22: the resource is one 44-byte header followed by the audio of the
\* chunks that returned audio, in chunk order; its length is 44 plus the
\* payload lengths, the data-size field holds the payload length and the
\* RIFF size field 36 plus the payload length, and no second header follows.
C22_Resource ==
  Returned /\ dubResult.kind = "url" =>
    LET data == dubResult.data
        payload == Payload(data)
    IN /\ Len(data) = HeaderLen + Len(payload)
       /\ Len(dubBuffers) = Len(AudioChunks)
       /\ \A j \in DOMAIN dubBuffers :
            /\ Len(dubBuffers[j]) >= 1
            /\ \A b \in DOMAIN dubBuffers[j] : dubBuffers[j][b] = AudioChunks[j]
       /\ payload = Flatten(dubBuffers)
       /\ SubSeq(data, 1, 4) = RiffTag
       /\ SubSeq(data, 9, 12) = WaveTag
       /\ SubSeq(data, 37, 40) = DataTag
       /\ FieldAt(data, 41) = Len(payload)
       /\ FieldAt(data, 5) = 36 + Len(payload)

\* a resource made of the audio of two chunks with a chunk without audio
\* between them
C22_TwoOfThree ==
  /\ Returned
  /\ dubResult.kind = "url"
  /\ dubOutcomes = <<"audio", "empty", "audio">>
  /\ Len(dubBuffers[1]) # Len(dubBuffers[2])

\* ------------------------------------------------------- C23
NewMediaOps == {"reset", "upload", "driveImport"}

\* C23: the dub resource reference changes only to the resource of a dub
\* request that finished successfully, or to none on reset or new media;
\* starting a dub request and a failing dub request leave it as it is.
C23_DubReference ==
  [][ /\ dubAudioUrl' # dubAudioUrl =>
           \/ last'.op = "dubbed" /\ dubAudioUrl' = DubUrl
           \/ last'.op \in NewMediaOps /\ dubAudioUrl' = NoUrl
      /\ last'.op = "dubbed" => dubAudioUrl' = DubUrl
      /\ last'.op \in NewMediaOps => dubAudioUrl' = NoUrl
      /\ last'.op = "dub" => dubAudioUrl' = dubAudioUrl
      /\ last'.op = "failed" /\ last'.arg = "dub" => dubAudioUrl' = dubAudioUrl
    ]_vars

\* a dub request has finished and its resource is the project's
C23_Dubbed ==
  /\ last.op = "dubbed"
  /\ dubAudioUrl = DubUrl

\* =================================================== VideoPlayer
\* Positions and thresholds are in tenths of a second.
Positions == 0..MaxPos
Volumes == {5, FullVolume}
SeekThreshold == 2
DriftThreshold == 3

Abs(x) == IF x < 0 THEN 0 - x ELSE x

\* URLs: 0 is null, 1 the URL held now, 2 the URL held before a new one
\* replaced it
Replaced(id) == IF id = 0 THEN 0 ELSE 2

\* useDub, the ref and the elements, as one value
PlayerState ==
  [useDub |-> plUseDub, seeking |-> plSeeking, video |-> plVideo,
   audio |-> plAudio, seekEvent |-> plSeekEvent]

\* an element whose src changed: the load algorithm pauses and rewinds it
Reloaded(e) == [e EXCEPT !.paused = TRUE, !.pos = 0]

\* the elements rendered for the props `new` after the props `old`
Elements(old, new, S) ==
  LET video == IF new.media = 0 THEN NoElement
               ELSE IF ~S.video.exists THEN FreshElement
               ELSE IF new.media # old.media THEN Reloaded(S.video)
               ELSE S.video
      audio == IF new.media = 0 \/ new.dub = 0 THEN NoElement
               ELSE IF ~S.audio.exists THEN FreshElement
               ELSE IF new.dub # old.dub THEN Reloaded(S.audio)
               ELSE S.audio
  IN [S EXCEPT !.video = video, !.audio = audio,
               !.seekEvent = IF new.media = old.media THEN S.seekEvent
                             ELSE "none"]

\* a play effect that never starts the audio element
PlayEffectVideoOnly(S, props, useDub, aOk) ==
  IF ~S.video.exists THEN S
  ELSE IF props.playing
  THEN [S EXCEPT !.video.paused = FALSE]
  ELSE [S EXCEPT !.video.paused = TRUE,
                 !.audio.paused = TRUE]

\* useEffect [isPlaying, useDub]; aOk tells whether play() of the audio
\* element succeeds (play() of the video element is taken to succeed)
PlayEffect(S, props, useDub, aOk) ==
  IF ~S.video.exists THEN S
  ELSE IF props.playing
  THEN [S EXCEPT !.video.paused = FALSE,
                 !.audio.paused = IF useDub /\ S.audio.exists /\ S.audio.paused
                                  THEN ~aOk ELSE S.audio.paused]
  ELSE [S EXCEPT !.video.paused = TRUE,
                 !.audio.paused = TRUE]

\* a volume effect that leaves the muted flag of the video alone under dub
VolumeEffectVideoLoud(S, props, useDub) ==
  IF ~S.video.exists THEN S
  ELSE IF useDub /\ S.audio.exists
  THEN [S EXCEPT !.audio.volume = props.volume,
                 !.audio.muted = props.muted]
  ELSE [S EXCEPT !.video.volume = props.volume,
                 !.video.muted = props.muted,
                 !.audio.muted = IF S.audio.exists THEN TRUE ELSE S.audio.muted]

\* useEffect [volume, isMuted, useDub]
VolumeEffect(S, props, useDub) ==
  IF ~S.video.exists THEN S
  ELSE IF useDub /\ S.audio.exists
  THEN [S EXCEPT !.video.muted = TRUE,
                 !.audio.volume = props.volume,
                 !.audio.muted = props.muted]
  ELSE [S EXCEPT !.video.volume = props.volume,
                 !.video.muted = props.muted,
                 !.audio.muted = IF S.audio.exists THEN TRUE ELSE S.audio.muted]

\* a time effect that repositions at every change
TimeEffectAlways(S, props) ==
  IF ~S.video.exists \/ S.seeking THEN S
  ELSE [S EXCEPT !.video.pos = props.time,
                 !.audio.pos = IF S.audio.exists THEN props.time ELSE S.audio.pos,
                 !.seekEvent = "seeking"]

\* useEffect [currentTime]; setting video.currentTime starts a seek
TimeEffect(S, props) ==
  IF ~S.video.exists \/ S.seeking THEN S
  ELSE IF Abs(S.video.pos - props.time) > SeekThreshold
  THEN [S EXCEPT !.video.pos = props.time,
                 !.audio.pos = IF S.audio.exists THEN props.time ELSE S.audio.pos,
                 !.seekEvent = "seeking"]
  ELSE S

\* a correction that moves the video to the audio
DriftCorrectionReversed(S) ==
  IF /\ S.useDub /\ S.video.exists /\ S.audio.exists /\ ~S.audio.paused
     /\ Abs(S.audio.pos - S.video.pos) > DriftThreshold
  THEN [S EXCEPT !.video.pos = S.audio.pos]
  ELSE S

\* handleTimeUpdate: "minor correction if audio drifts"
DriftCorrection(S) ==
  IF /\ S.useDub /\ S.video.exists /\ S.audio.exists /\ ~S.audio.paused
     /\ Abs(S.audio.pos - S.video.pos) > DriftThreshold
  THEN [S EXCEPT !.audio.pos = S.video.pos]
  ELSE S

\* the effects of a render in which useDub changed
UseDubEffects(S, props, useDub, aOk) ==
  VolumeEffect(PlayEffect([S EXCEPT !.useDub = useDub], props, useDub, aOk),
               props, useDub)

\* the render for the props `new` after the props `old` and its effects, in
\* the order of their declaration, then the render that setUseDub causes
Render(old, new, S, aOk) ==
  LET S1 == Elements(old, new, S)
      useDubNext == IF new.dub # old.dub THEN new.dub # 0 ELSE S1.useDub
      S2 == IF new.playing # old.playing
            THEN PlayEffect(S1, new, S1.useDub, aOk) ELSE S1
      S3 == IF new.volume # old.volume \/ new.muted # old.muted
            THEN VolumeEffect(S2, new, S2.useDub) ELSE S2
      S4 == IF new.time # old.time THEN TimeEffect(S3, new) ELSE S3
  IN IF useDubNext = S4.useDub THEN S4
     ELSE UseDubEffects(S4, new, useDubNext, aOk)

\* the first render of a VideoPlayer for the props: every effect runs
Mounted(props, aOk) ==
  LET S0 == [useDub |-> FALSE, seeking |-> FALSE,
             video |-> IF props.media = 0 THEN NoElement ELSE FreshElement,
             audio |-> IF props.media = 0 \/ props.dub = 0
                       THEN NoElement ELSE FreshElement,
             seekEvent |-> "none"]
      S4 == TimeEffect(VolumeEffect(PlayEffect(S0, props, FALSE, aOk),
                                    props, FALSE), props)
  IN IF props.dub = 0 THEN S4
     ELSE UseDubEffects(S4, props, TRUE, aOk)

Put(S, props, op) ==
  /\ plProps' = props
  /\ plUseDub' = S.useDub
  /\ plSeeking' = S.seeking
  /\ plVideo' = S.video
  /\ plAudio' = S.audio
  /\ plSeekEvent' = S.seekEvent
  /\ plLast' = op
  /\ UNCHANGED <<appAll, trVars, chVars, dubVars, shVars, ioVars>>

\* a change of the state of App, rendered
SetProps(new, aOk, op) ==
  Put(Render(plProps, new, PlayerState, aOk), new, op)

\* handleFileUpload, Drive import: setMediaUrl(url), setDubAudioUrl(null)
LoadMedia ==
  LET new == [plProps EXCEPT !.media = 1, !.dub = 0]
  IN Put(Render([plProps EXCEPT !.media = Replaced(plProps.media)], new,
                PlayerState, TRUE),
         new, [op |-> "load"])

\* handleReset, handleLogout: setMediaUrl(null); reset: setDubAudioUrl(null)
ResetMedia ==
  /\ plProps.media # 0 \/ plProps.dub # 0
  /\ SetProps([plProps EXCEPT !.media = 0, !.dub = 0], TRUE,
              [op |-> "reset"])

\* handleDubbing: setDubAudioUrl(audioUrl)
DubReady(aOk) ==
  LET new == [plProps EXCEPT !.dub = 1]
  IN Put(Render([plProps EXCEPT !.dub = Replaced(plProps.dub)], new,
                PlayerState, aOk),
         new, [op |-> "dubReady", aOk |-> aOk])

\* the play button: setIsPlaying(!isPlaying)
TogglePlay(aOk) ==
  SetProps([plProps EXCEPT !.playing = ~plProps.playing], aOk,
           [op |-> IF plProps.playing THEN "pause" ELSE "play", aOk |-> aOk])

ToggleMute ==
  SetProps([plProps EXCEPT !.muted = ~plProps.muted], TRUE,
           [op |-> "mute"])

SetVolume(v) ==
  /\ v # plProps.volume
  /\ SetProps([plProps EXCEPT !.volume = v], TRUE, [op |-> "volume"])

\* the Original / AI Dub buttons
SetUseDub(b, aOk) ==
  /\ plProps.media # 0
  /\ plProps.dub # 0
  /\ b # plUseDub
  /\ Put(UseDubEffects(PlayerState, plProps, b, aOk), plProps,
         [op |-> "toggle", aOk |-> aOk])

\* Timeline onSeek
TimelineSeek(t) ==
  /\ t # plProps.time
  /\ SetProps([plProps EXCEPT !.time = t], TRUE,
              [op |-> "seek", from |-> "timeline"])

\* SubtitleEditor onSeek
EditorSeek(t) ==
  /\ t # plProps.time \/ plProps.playing
  /\ SetProps([plProps EXCEPT !.time = t, !.playing = FALSE], TRUE,
              [op |-> "seek", from |-> "editor"])

\* playback moves a playing element on
VideoTick ==
  /\ plVideo.exists
  /\ ~plVideo.paused
  /\ plVideo.pos < MaxPos
  /\ Put([PlayerState EXCEPT !.video.pos = plVideo.pos + 1], plProps,
         [op |-> "videoTick"])

AudioTick ==
  /\ plAudio.exists
  /\ ~plAudio.paused
  /\ plAudio.pos < MaxPos
  /\ Put([PlayerState EXCEPT !.audio.pos = plAudio.pos + 1], plProps,
         [op |-> "audioTick"])

\* the video reaches its end: it pauses, onPause sets isPlaying to false
VideoEnds ==
  /\ plVideo.exists
  /\ ~plVideo.paused
  /\ plVideo.pos = MaxPos
  /\ LET new == [plProps EXCEPT !.playing = FALSE]
     IN Put(Render(plProps, new, [PlayerState EXCEPT !.video.paused = TRUE],
                   TRUE),
            new, [op |-> "videoEnds"])

\* the dub audio reaches its end, wherever that is: it pauses
AudioEnds ==
  /\ plAudio.exists
  /\ ~plAudio.paused
  /\ Put([PlayerState EXCEPT !.audio.paused = TRUE], plProps,
         [op |-> "audioEnds"])

\* onTimeUpdate of the video element: handleTimeUpdate(currentTime)
TimeUpdate ==
  /\ plVideo.exists
  /\ IF plSeeking
     THEN Put(PlayerState, plProps, [op |-> "timeUpdate", seeking |-> TRUE])
     ELSE LET new == [plProps EXCEPT !.time = plVideo.pos]
          IN Put(Render(plProps, new, DriftCorrection(PlayerState), TRUE),
                 new, [op |-> "timeUpdate", seeking |-> FALSE])

\* onSeeking
OnSeeking ==
  /\ plSeekEvent = "seeking"
  /\ Put([PlayerState EXCEPT
            !.seeking = TRUE,
            !.audio.pos = IF plAudio.exists THEN plVideo.pos ELSE plAudio.pos,
            !.seekEvent = "seeked"],
         plProps, [op |-> "seeking"])

\* onSeeked
OnSeeked ==
  /\ plSeekEvent = "seeked"
  /\ Put([PlayerState EXCEPT !.seeking = FALSE, !.seekEvent = "none"],
         plProps, [op |-> "seeked"])

\* the workspace is left and entered again (admin portal and back)
Remount(aOk) ==
  /\ plProps.media # 0
  /\ Put(Mounted(plProps, aOk), plProps, [op |-> "remount"])

PlayerInit ==
  /\ AppParked
  /\ ShiftIdle
  /\ IoIdle
  /\ TranslateIdle
  /\ ChunkIdle
  /\ DubIdle
  /\ PlayerMounted

PlayerControls ==
  \/ \E aOk \in BOOLEAN : TogglePlay(aOk)
  \/ ToggleMute
  \/ \E v \in Volumes : SetVolume(v)
  \/ \E b, aOk \in BOOLEAN : SetUseDub(b, aOk)
  \/ \E t \in Positions : TimelineSeek(t)
  \/ \E t \in Positions : EditorSeek(t)

PlayerProject ==
  \/ LoadMedia
  \/ ResetMedia
  \/ \E aOk \in BOOLEAN : DubReady(aOk)
  \/ \E aOk \in BOOLEAN : Remount(aOk)

PlayerEvents ==
  \/ VideoTick
  \/ AudioTick
  \/ VideoEnds
  \/ AudioEnds
  \/ TimeUpdate
  \/ OnSeeking
  \/ OnSeeked

PlayerNext == PlayerControls \/ PlayerProject \/ PlayerEvents

SpecPlayer == PlayerInit /\ [][PlayerNext]_vars

\* ---- views of the player
Drift == Abs(plAudio.pos - plVideo.pos)
DubActive == plUseDub /\ plAudio.exists
\* no seek of the video element is under way
NoSeek == plSeekEvent = "none"

\* C24: at a time update while playing with the dub track active, the audio
\* is set to the position of the video if the two differ by more than the
\* correction threshold and is left where it is otherwise; and a time update
\* never moves the video.
C24_DriftCorrection ==
  [][ plLast'.op = "timeUpdate" =>
        /\ plProps.playing /\ DubActive /\ NoSeek =>
             /\ Drift > DriftThreshold => plAudio'.pos = plVideo.pos
             /\ Drift <= DriftThreshold => plAudio'.pos = plAudio.pos
        /\ plVideo'.pos = plVideo.pos
    ]_vars

\* C25: when the external time changes to a value more than the seek
\* threshold away from the position of the video, and no seek is under way,
\* the video and the audio (if present) are set to the external time; when
\* it is at most the threshold away nothing is repositioned, and a time
\* update of playback never repositions.
C25_ExternalTime ==
  [][ /\ plProps'.time # plProps.time /\ plVideo.exists /\ NoSeek =>
           LET far == Abs(plVideo.pos - plProps'.time) > SeekThreshold
           IN /\ far => /\ plVideo'.pos = plProps'.time
                        /\ plAudio'.exists => plAudio'.pos = plProps'.time
              /\ ~far => /\ plVideo'.pos = plVideo.pos
                         /\ plSeekEvent' = plSeekEvent
                         /\ plLast'.op # "timeUpdate" => plAudio'.pos = plAudio.pos
      /\ plLast'.op = "timeUpdate" =>
           /\ plVideo'.pos = plVideo.pos
           /\ plSeekEvent' = plSeekEvent
    ]_vars

\* the track the toggle selects, and whether the other one is silent
Selected == IF DubActive THEN plAudio ELSE plVideo
OtherMuted ==
  IF DubActive THEN plVideo.muted ELSE plAudio.exists => plAudio.muted

\* C26: whenever media is loaded the track the toggle does not select is
\* muted, so the two tracks are never both unmuted, and the selected track
\* has the shared muted flag and the shared volume.
C26_OneAudible ==
  plVideo.exists =>
    /\ OtherMuted
    /\ ~(plAudio.exists /\ ~plVideo.muted /\ ~plAudio.muted)
    /\ Selected.muted = plProps.muted
    /\ Selected.volume = plProps.volume

\* C27: a play request with media loaded leaves the video playing and the
\* play flag set, and leaves an existing audio element playing unless its
\* play() is rejected; after a pause request both elements are paused.
C27_PlayPause ==
  [][ /\ plLast'.op = "play" /\ plVideo.exists =>
           /\ ~plVideo'.paused
           /\ plProps'.playing
           /\ plAudio.exists /\ plLast'.aOk => ~plAudio'.paused
      /\ plProps.playing /\ ~plProps'.playing /\ plVideo'.exists =>
           /\ plVideo'.paused
           /\ plAudio'.exists => plAudio'.paused
    ]_vars

\* C28: while playing with a dub track present, after each time update the
\* audio and the video are at most the correction threshold apart, whether
\* the toggle selects the original or the dub.
C28_BothAligned ==
  [][ plLast'.op = "timeUpdate" /\ plProps.playing /\ plAudio.exists /\ NoSeek
        => Abs(plAudio'.pos - plVideo'.pos) <= DriftThreshold
    ]_vars

\* the playback state
PlaybackState ==
  IF plProps.media = 0 THEN "Idle"
  ELSE IF plSeeking THEN "Seeking"
  ELSE IF plProps.playing THEN "Playing"
  ELSE "Paused"

\* C29: with no media loaded nothing is playing (Idle), and right after media
\* is loaded the synchronizer is Paused: the play flag is false and both
\* elements are paused.
C29_LoadPauses ==
  /\ plProps.media = 0 => ~plProps.playing /\ ~plVideo.exists /\ ~plAudio.exists
  /\ plLast.op = "load" =>
       /\ PlaybackState = "Paused"
       /\ ~plProps.playing
       /\ plVideo.exists /\ plVideo.paused
       /\ plAudio.exists => plAudio.paused

\* =================================================== handleSync on Numbers
\* A Number is a binary floating-point value: a significand of MantissaBits
\* bits (53 in the source) times a power of two, every operation rounded to
\* the nearest such value, ties to even.  Here a Number is the integer count
\* of quanta of 2^-FracBits seconds it stands for; FracBits is chosen so that
\* every Number met below is a whole count of quanta.
FracBits == MantissaBits + 3

RECURSIVE Pow2(_)
Pow2(n) == IF n = 0 THEN 1 ELSE 2 * Pow2(n - 1)

RECURSIVE BitLen(_)
BitLen(x) == IF x = 0 THEN 0 ELSE 1 + BitLen(x \div 2)

\* n / m rounded to the nearest integer, ties to even (n >= 0, m > 0)
RoundHalfEven(n, m) ==
  LET q == n \div m
      r == n % m
  IN IF 2 * r > m \/ (2 * r = m /\ q % 2 = 1) THEN q + 1 ELSE q

\* the binary exponent that leaves MantissaBits bits of the count x
Exponent(x) == IF x < Pow2(MantissaBits) THEN 0 ELSE BitLen(x) - MantissaBits

\* the nearest Number to the exact count x >= 0
RoundSig(x) == RoundHalfEven(x, Pow2(Exponent(x))) * Pow2(Exponent(x))

\* offsetMs / 1000: the Number nearest to the quotient
DivideBy1000(ms) ==
  LET m == Abs(ms)
      e == Exponent((m * Pow2(FracBits)) \div 1000)
      q == RoundHalfEven(m * Pow2(FracBits), 1000 * Pow2(e)) * Pow2(e)
  IN IF ms < 0 THEN 0 - q ELSE q

\* a + b on Numbers
FloatAdd(a, b) ==
  IF a + b >= 0 THEN RoundSig(a + b) ELSE 0 - RoundSig(0 - (a + b))

\* Math.max(0, t + offsetSec)
ShiftTime(t, offsetMs) == Max(0, FloatAdd(t, DivideBy1000(offsetMs)))

\* handleSync's map on the two times of a cue
ShiftTimes(cue, offsetMs) ==
  [cue EXCEPT !.startTime = ShiftTime(cue.startTime, offsetMs),
              !.endTime = ShiftTime(cue.endTime, offsetMs)]

ShiftedTimes(cues, offsetMs) ==
  [i \in 1..Len(cues) |-> ShiftTimes(cues[i], offsetMs)]

\* cue times as parsed from "HH:MM:SS,mmm", and the offsets of the Sync menu
ShiftTimesMs == {0, 300, 1000, 2500}
ShiftOffsets == {-500, -100, 100, 500}

ShiftCues ==
  { [startTime |-> DivideBy1000(p[1]), endTime |-> DivideBy1000(p[2])] :
      p \in { q \in ShiftTimesMs \X ShiftTimesMs : q[1] <= q[2] } }

ShiftInputs == UNION { [1..n -> ShiftCues] : n \in 0..MaxCues }

ShiftInit ==
  /\ AppParked
  /\ TranslateIdle
  /\ ChunkIdle
  /\ DubIdle
  /\ PlayerMounted
  /\ IoIdle
  /\ shCues \in ShiftInputs
  /\ shOffsets \in ShiftOffsets \X ShiftOffsets
  /\ shTwice = <<>>
  /\ shOnce = <<>>
  /\ shDone = FALSE

\* handleSync(d1) then handleSync(d2) on the cues, and handleSync(d1 + d2)
ApplyShifts ==
  /\ ~shDone
  /\ shTwice' = ShiftedTimes(ShiftedTimes(shCues, shOffsets[1]), shOffsets[2])
  /\ shOnce' = ShiftedTimes(shCues, shOffsets[1] + shOffsets[2])
  /\ shDone' = TRUE
  /\ UNCHANGED <<shCues, shOffsets, appAll, trVars, chVars, dubVars, plVars,
                 ioVars>>

ShiftNext == ApplyShifts

SpecShift == ShiftInit /\ [][ShiftNext]_vars

\* no time of the cues is clamped at 0 by a nudge of offsetMs
Unclamped(cues, offsetMs) ==
  \A i \in 1..Len(cues) :
    /\ FloatAdd(cues[i].startTime, DivideBy1000(offsetMs)) >= 0
    /\ FloatAdd(cues[i].endTime, DivideBy1000(offsetMs)) >= 0

NothingClamped ==
  /\ Unclamped(shCues, shOffsets[1])
  /\ Unclamped(ShiftedTimes(shCues, shOffsets[1]), shOffsets[2])
  /\ Unclamped(shCues, shOffsets[1] + shOffsets[2])

\* C30: when no time is clamped at 0 in any of the three nudges, the cues
\* after handleSync(d1) and handleSync(d2) equal the cues after
\* handleSync(d1 + d2).
C30_ShiftsCompose ==
  shDone /\ NothingClamped => shTwice = shOnce

\* =================================================== operations in flight
LongRunning == {"generate", "translate", "dub"}
CompletionOps == {"generated", "translated", "dubbed", "failed"}

\* the closures of the long-running operations in flight
InFlight == { k \in 1..Len(pending) : pending[k].kind \in LongRunning }

\* C32: what an operation delivers after a project reset or a load of new
\* media that happened while it was in flight is not applied: the Cue Store,
\* the history, the cursor and the dub resource of the new project stay as
\* the reset or the load left them.
C32_StaleResultIgnored ==
  [][ last.op \in NewMediaOps /\ last'.op \in CompletionOps =>
        /\ subtitles' # Undefined
        /\ heap'[subtitles'] = Subs
        /\ Snapshots' = Snapshots
        /\ historyIndex' = historyIndex
        /\ dubAudioUrl' = dubAudioUrl
    ]_vars

\* C33: at most one long-running operation (transcription, translation, dub
\* generation) is in flight at any time, whatever the user does meanwhile.
C33_OneInFlight == Cardinality(InFlight) <= 1

\* C34: a commit c2 that executes right after a synchronous commit c1 (nudge,
\* explicit commit, delete) finds c1 in the history: after c2 the snapshot
\* of c1 is immediately before the snapshot of c2, the cursor is on c2, and
\* so an undo returns the snapshot of c1; c2 may come from a transcription
\* or a translation that was started before c1.
C34_CommitsInOrder ==
  [][ last.op \in {"sync", "commit", "delete"} /\ last'.op \in CommitOps =>
        /\ Len(history') >= 2
        /\ historyIndex' = Len(history') - 1
        /\ Snapshots'[Len(history') - 1] = Subs
        /\ Snapshots'[Len(history')] = heap'[subtitles']
    ]_vars

\* C37: right after a logout nothing of the project stays in the state: the
\* Cue Store and the history are empty, the cursor is -1 and there is no
\* media and no dub resource.
C37_LogoutClears ==
  last.op = "logout" =>
    /\ Subs = <<>>
    /\ mediaUrl = NoUrl
    /\ Len(history) = 0
    /\ historyIndex = -1
    /\ dubAudioUrl = NoUrl

\* =================================================== views and roles
AdminViews == {"admin-portal", "admin-dashboard"}

\* C39: the view is an admin view only while the current user exists and is
\* an admin; right after a logout the view is the auth screen and there is
\* no current user; a user of role 'user' sees the workspace only.
C39_AdminViews ==
  /\ viewMode \in AdminViews => currentUser # NoUser /\ currentUser.role = "admin"
  /\ last.op = "logout" => viewMode = "auth" /\ currentUser = NoUser
  /\ currentUser.role = "user" => viewMode = "workspace"

\* the admin has opened the dashboard from the portal
C39_AdminInDashboard ==
  /\ last.op = "view"
  /\ viewMode = "admin-dashboard"
  /\ currentUser.role = "admin"

\* =================================================== the order of the calls
\* the synthesis calls issued so far: those that ended and the one awaited
CallsIssued == Len(dubOutcomes) + (IF dubPc = "call" THEN 1 ELSE 0)
CallsAwaited == IF dubPc = "call" THEN 1 ELSE 0

\* C35: the synthesis capability is invoked once per chunk, in chunk order
\* and one call at a time: the call of chunk i is issued when exactly the
\* calls of chunks 0..i-1 have returned, and when the batch is over every
\* chunk has had its call.
C35_OneCallPerChunk ==
  /\ CallsAwaited <= 1
  /\ dubPc = "call" => Len(dubOutcomes) = dubI
  /\ CallsIssued <= dubChunks
  /\ Returned => CallsIssued = dubChunks

\* =================================================== seeking
SeekOps == {"seek", "seeking", "seeked"}

\* C36: while the synchronizer is seeking, a time update of the video is not
\* reported to the application and a change of the external time does not
\* reposition the video; and a seek, wherever it is started (timeline, cue
\* editor, the media element), leaves the play state as it was: neither the
\* request nor the seeking and seeked events change the play flag or pause
\* or start the video.
C36_SeekTransparent ==
  [][ /\ plSeeking /\ plLast'.op = "timeUpdate" => plProps'.time = plProps.time
      /\ plSeeking /\ plLast'.op = "seek" /\ plVideo.exists =>
           plVideo'.pos = plVideo.pos
      /\ plLast'.op \in SeekOps =>
           /\ plProps'.playing = plProps.playing
           /\ plVideo.exists => plVideo'.paused = plVideo.paused
    ]_vars

\* =================================================== mockBackend.logActivity
\* An entry is known by its id (`act_${Date.now()}_...`), here the number of
\* the call that made it; details and timestamp are left out.
ActivityTypes == {"UPLOAD", "EXPORT"}

NewLog(id, userId, type) == [id |-> id, userId |-> userId, type |-> type]

\* JSON.stringify(activities) and JSON.parse of the stored item
StringifyLog(logs) ==
  [i \in 1..Len(logs) |-> <<logs[i].id, logs[i].userId, logs[i].type>>]
ParseLog(item) ==
  [i \in 1..Len(item) |-> NewLog(item[i][1], item[i][2], item[i][3])]

\* a log that drops its newest entry when it is full
UnshiftedShift(logs, newLog) ==
  IF Len(<<newLog>> \o logs) > MaxLog THEN logs ELSE <<newLog>> \o logs

\* activities.unshift(newLog); if (activities.length > 1000) activities.pop()
Unshifted(logs, newLog) ==
  IF Len(<<newLog>> \o logs) > MaxLog
  THEN SubSeq(<<newLog>> \o logs, 1, Len(logs))
  ELSE <<newLog>> \o logs

\* logActivity(userId, type, details); ok: localStorage.setItem did not
\* throw.  The body is one try block whose catch only writes to the console.
LogActivity(userId, type, ok) ==
  /\ logCalls' = logCalls + 1
  /\ activities' =
       IF ok
       THEN StringifyLog(Unshifted(ParseLog(activities),
                                   NewLog(logCalls + 1, userId, type)))
       ELSE activities
  /\ logLast' = [id |-> logCalls + 1, stored |-> ok, thrown |-> FALSE]

LogInit ==
  /\ AppParked
  /\ TranslateIdle
  /\ ChunkIdle
  /\ DubIdle
  /\ PlayerMounted
  /\ ShiftIdle
  /\ IoIdle

CallLogActivity(userId, type, ok) ==
  /\ logCalls < MaxLogCalls
  /\ LogActivity(userId, type, ok)
  /\ UNCHANGED <<exported, appAll, trVars, chVars, dubVars, plVars, shVars>>

LogNext ==
  \E userId \in UserIds, type \in ActivityTypes, ok \in BOOLEAN :
    CallLogActivity(userId, type, ok)

SpecLog == LogInit /\ [][LogNext]_vars

\* the stored log
TheLog == ParseLog(activities)

\* C40: after every call of logActivity the stored log holds at most MaxLog
\* entries, newest first; a call that can store puts its entry at the front
\* and keeps the others in order, dropping the oldest one, and only that
\* one, when the log was full; a call that cannot store leaves the log as it
\* was; and no call throws.
C40_ActivityLog ==
  [][ logCalls' = logCalls + 1 =>
        LET old == TheLog
            new == ParseLog(activities')
        IN /\ Len(new) <= MaxLog
           /\ \A i, j \in 1..Len(new) : i < j => new[i].id > new[j].id
           /\ logLast'.stored =>
                /\ new[1].id = logCalls'
                /\ Len(new) = IF Len(old) = MaxLog THEN MaxLog ELSE Len(old) + 1
                /\ \A i \in 2..Len(new) : new[i] = old[i - 1]
           /\ ~logLast'.stored => new = old
           /\ ~logLast'.thrown
    ]_vars

\* the log is full, a call has dropped the oldest entry and kept the rest
C40_OldestDropped ==
  /\ Len(TheLog) = MaxLog
  /\ logLast.stored
  /\ TheLog[1].id = logCalls
  /\ TheLog[MaxLog].id > 1
  /\ \E i \in 1..MaxLog : TheLog[i].type = "EXPORT"

\* =================================================== handleExport
\* the properties of a cue, in the order JSON.stringify writes them
Fields ==
  <<"id", "startTime", "endTime", "text", "originalText", "speaker", "confidence">>

\* the value JSON.stringify writes for field f of a cue
JsonValue(cue, f) ==
  IF f = "originalText"
  THEN (IF cue.originalText = NoText THEN "" ELSE cue.originalText[1])
  ELSE cue[f]

\* one cue as JSON.stringify writes it: its properties as name and value, a
\* property whose value is undefined left out
JsonObject(cue) ==
  LET kept == SelectSeq(Fields,
                        LAMBDA f : f # "originalText" \/ cue.originalText # NoText)
  IN [k \in 1..Len(kept) |-> <<kept[k], JsonValue(cue, kept[k])>>]

\* JSON.stringify(subtitles, null, 2)
JsonStringify(cues) == [i \in 1..Len(cues) |-> JsonObject(cues[i])]

\* generateSRT(subtitles): one block per cue in ascending start time, with a
\* 1-based index, the two times and the text
GenerateSRT(cues) ==
  LET sorted == SortByStart(cues)
  IN [i \in 1..Len(sorted) |->
        [index |-> i, startTime |-> sorted[i].startTime,
         endTime |-> sorted[i].endTime, text |-> sorted[i].text]]

\* mediaName.replace(/\.[^/.]+$/, ""), on the names a project can have
BaseName(name) ==
  CASE name = LocalFileName -> "clip"
    [] name = DriveFileName -> "Project_Flower_Edit_v2"
    [] OTHER -> name

\* downloadFile(content, filename, mime): the file offered to the browser
DownloadFile(content, filename, mime) ==
  [content |-> content, filename |-> filename, mime |-> mime]

ExportFormats == {"srt", "json"}

ExportedFile(cues, name, format) ==
  DownloadFile(IF format = "srt" THEN GenerateSRT(cues) ELSE JsonStringify(cues),
               <<BaseName(name), "_subs.", format>>,
               IF format = "json" THEN "application/json" ELSE "text/plain")

\* an export that puts the Cue Store in start-time order while it is at it
HandleExportSorting(format, ok) ==
  /\ CanStep
  /\ InWorkspace
  /\ IF Len(Subs) = 0
     THEN UNCHANGED <<ioVars, subtitles, history, pending, heap>>
     ELSE /\ exported' = ExportedFile(Subs, mediaName, format)
          /\ Install(subtitles, history, pending,
                     [heap EXCEPT ![subtitles] = SortByStart(Subs)])
          /\ IF currentUser # NoUser
             THEN LogActivity(currentUser.id, "EXPORT", ok)
             ELSE UNCHANGED lgVars
  /\ UNCHANGED <<currentUser, viewMode, mediaUrl, mediaName, historyIndex,
                 processingStatus, dubAudioUrl, fileInput, backendVars>>
  /\ steps' = steps + 1
  /\ last' = [op |-> "export", arg |-> format]
  /\ UNCHANGED <<trVars, chVars, dubVars, plVars, shVars>>

\* handleExport(format); ok: the activity log can be written
HandleExport(format, ok) ==
  /\ CanStep
  /\ InWorkspace
  /\ IF Len(Subs) = 0
     THEN UNCHANGED ioVars
     ELSE /\ exported' = ExportedFile(Subs, mediaName, format)
          /\ IF currentUser # NoUser
             THEN LogActivity(currentUser.id, "EXPORT", ok)
             ELSE UNCHANGED lgVars
  /\ UNCHANGED <<appVars, backendVars>>
  /\ steps' = steps + 1
  /\ last' = [op |-> "export", arg |-> format]
  /\ UNCHANGED <<trVars, chVars, dubVars, plVars, shVars>>

\* the workspace with its export: editing, dubbing and reset are what brings
\* the project into the states an export can find
ExportNext ==
  \/ \E id \in CueIds, u \in UpdateFields : OnUpdateSubtitle(id, u)
  \/ \E o \in SyncOffsets : HandleSync(o)
  \/ \E id \in CueIds : OnDeleteSubtitle(id)
  \/ Undo
  \/ HandleDubbing
  \/ \E k \in 1..Len(pending) : DubbingDone(k)
  \/ HandleReset
  \/ \E format \in ExportFormats, ok \in BOOLEAN : HandleExport(format, ok)

SpecExport == Init /\ [][ExportNext]_vars

\* the cue list a structured export holds: every object read back as a cue
HasField(obj, f) == \E k \in 1..Len(obj) : obj[k][1] = f
FieldOf(obj, f) == obj[CHOOSE k \in 1..Len(obj) : obj[k][1] = f][2]
ReadCue(obj) ==
  [id |-> FieldOf(obj, "id"), startTime |-> FieldOf(obj, "startTime"),
   endTime |-> FieldOf(obj, "endTime"), text |-> FieldOf(obj, "text"),
   originalText |-> IF HasField(obj, "originalText")
                    THEN <<FieldOf(obj, "originalText")>> ELSE NoText,
   speaker |-> FieldOf(obj, "speaker"), confidence |-> FieldOf(obj, "confidence")]
ReadCues(content) == [i \in 1..Len(content) |-> ReadCue(content[i])]

\* C31: an export, in either form, leaves the Cue Store (content and order),
\* the history, the cursor and the dub resource as they were, and the rest
\* of the project and what is persisted too; the structured form holds every
\* cue with every field in the order of the store; with an empty Cue Store an
\* export produces no file and logs nothing.
C31_ExportFrame ==
  [][ last'.op = "export" =>
        /\ subtitles' # Undefined
        /\ heap'[subtitles'] = Subs
        /\ Snapshots' = Snapshots
        /\ historyIndex' = historyIndex
        /\ dubAudioUrl' = dubAudioUrl
        /\ mediaUrl' = mediaUrl /\ mediaName' = mediaName
        /\ processingStatus' = processingStatus
        /\ userData' = userData
        /\ Len(Subs) = 0 => exported' = exported /\ activities' = activities
        /\ Len(Subs) > 0 =>
             /\ exported'.mime # "none"
             /\ last'.arg = "json" =>
                  /\ exported'.mime = "application/json"
                  /\ ReadCues(exported'.content) = Subs
    ]_vars

\* a structured export of a store of two cues that is not in start-time
\* order, for the project of an imported file
C31_ExportedUnsorted ==
  /\ last.op = "export"
  /\ last.arg = "json"
  /\ Len(Subs) = 2
  /\ Subs[1].startTime > Subs[2].startTime
  /\ Len(exported.content) = 2
  /\ exported.filename[1] = "clip"

\* =================================================== the processing status
\* The workspace with the external calls and the Drive timer bound to end:
\* an operation in flight is completed (or fails) sooner or later.

\* the render threw at subtitles.length: nothing of the application runs
Crashed == subtitles = Undefined

\* every callback that can still run has a step of the run left for it
Room == Crashed \/ steps + Len(pending) <= MaxSteps

\* the user takes a step only if it leaves room, so that the bound on the
\* steps of a run never keeps a completion from happening
StatusNext ==
  \/ (Session \/ HandleFileUpload \/ HandleReset \/ Edit) /\ Room'
  \/ (DriveConnect \/ DriveSelectFile) /\ Room'
  \/ Start /\ Room'
  \/ Complete

\* setTimeout(() => setProcessingStatus('IDLE'), 1000) runs its callback
TimerFires == \E k \in 1..Len(pending) : DriveTimerDone(k)

\* ENABLED <<Complete>>_vars, written out: some operation is in flight and
\* its callback can still run
CompletionPossible == pending # <<>> /\ CanStep /\ ~Crashed

\* weak fairness of Complete, with its enabling condition written out: an
\* awaited call returns or fails
CompleteFair == <>[](~CompletionPossible) \/ []<><<Complete>>_vars

SpecStatus == Init /\ [][StatusNext]_vars /\ WF_vars(TimerFires) /\ CompleteFair

BusyStatuses == {"UPLOADING", "ANALYZING", "TRANSLATING"}
Busy == processingStatus \in BusyStatuses
Settled == processingStatus \in {"READY", "ERROR"}

\* generate, translate or dub has just set the status to a busy value and
\* awaits its external call
Started ==
  /\ last.op \in LongRunning
  /\ Busy
  /\ \E k \in 1..Len(pending) : pending[k].kind = last.op

\* C38: when generate, translate or dub has set a busy status, the status
\* becomes READY or ERROR once the external call has returned or failed; a
\* Drive import that has set UPLOADING is followed by IDLE; the status does
\* not stay busy for ever; and generate and dub start only from IDLE or
\* READY.
C38_StatusTerminates ==
  /\ [](Started => <>Settled)
  /\ [](last.op = "driveImport" => <>(processingStatus = "IDLE"))
  /\ <>[](~Busy)
  /\ [][ last'.op \in {"generate", "dub"} => Idle ]_vars

====
